---- MODULE Spec2Model ----
(***************************************************************************)
(* swapfont: the substitution and layout-preservation engine.              *)
(*                                                                         *)
(* LayoutEngine (engines/layout_engine.py) and the operator handlers       *)
(* (handlers.py) as a state machine.                                       *)
(*                                                                         *)
(* Conventions of the model                                                *)
(*  - A Python value is a record [t, v]: t is its type ("int", "str",      *)
(*    "None"), v a sequence: <<n>> for the int n, the code points of a     *)
(*    str, <<>> for None.                                                  *)
(*  - A Python dict is the sequence of its items [k, v] in insertion order *)
(*    (an assignment to an existing key keeps the key's position).         *)
(*  - A PDF name is the sequence of its one-character strings.             *)
(*  - A float is an integer count of thousandths (10.0pt = 10000, the      *)
(*    factor 0.5 = 500, 200% = 200000); products are rescaled with \div.   *)
(*    The values the model draws make every such division exact.           *)
(*  - A quotient of floats (a scale percentage, a rescaled kerning number) *)
(*    is the reduced fraction <<n, d>> with d > 0.                         *)
(***************************************************************************)
EXTENDS Integers, Sequences, FiniteSets, TLC

VARIABLES config, custom_encoding_maps, target_font_cache, source_font_cache,
          source_pikepdf_fonts, run, fd, tt, eng, sel, tz, last

vars == <<config, custom_encoding_maps, target_font_cache, source_font_cache,
          source_pikepdf_fonts, run, fd, tt, eng, sel, tz, last>>

(***************************************************************************)
(* Bounds                                                                  *)
(***************************************************************************)
\* longest string operand of Tj
MaxStrLen == 2
\* most items of a TJ array
MaxItems == 2
\* most characters one rule requires of its target font file
MaxRequired == 128
\* most pages of a document
MaxPages == 2
\* most glyph programs of a draw-program font
MaxGlyphs == 2

(***************************************************************************)
(* Python values                                                           *)
(***************************************************************************)
PyInt(n) == [t |-> "int", v |-> <<n>>]
PyStr(s) == [t |-> "str", v |-> s]
PyNone == [t |-> "None", v |-> <<>>]

IsInt(x) == x.t = "int"
IsStr(x) == x.t = "str"
IntOf(x) == x.v[1]

\* Python truthiness: `if x:`
Truthy(x) ==
  CASE x.t = "int" -> x.v[1] # 0
    [] x.t = "str" -> Len(x.v) > 0
    [] OTHER -> FALSE

\* ord() of the characters the model writes down
Ord(c) ==
  CASE c = "0" -> 48 [] c = "1" -> 49 [] c = "2" -> 50 [] c = "4" -> 52
    [] c = "A" -> 65 [] c = "B" -> 66 [] c = "X" -> 88
    [] c = "a" -> 97 [] c = "c" -> 99 [] c = "f" -> 102 [] c = "i" -> 105
    [] c = "x" -> 120
    [] c = "fi" -> 64257   \* U+FB01 LATIN SMALL LIGATURE FI, one character

Str(cs) == PyStr([i \in 1..Len(cs) |-> Ord(cs[i])])

(***************************************************************************)
(* Fractions                                                               *)
(***************************************************************************)
Abs(x) == IF x < 0 THEN 0 - x ELSE x

RECURSIVE Gcd(_, _)
Gcd(a, b) == IF b = 0 THEN a ELSE Gcd(b, a % b)

\* n / d, reduced (d # 0)
Rat(n, d) ==
  LET g == Gcd(Abs(n), Abs(d))
      sgn == IF d < 0 THEN -1 ELSE 1
  IN <<(sgn * n) \div g, (sgn * d) \div g>>

RatInt(n) == <<n, 1>>
RatLt(x, y) == x[1] * y[2] < y[1] * x[2]
RatMin(x, y) == IF RatLt(y, x) THEN y ELSE x
RatMax(x, y) == IF RatLt(x, y) THEN y ELSE x
RatSub(x, y) == Rat(x[1] * y[2] - y[1] * x[2], x[2] * y[2])
RatAbs(x) == <<Abs(x[1]), x[2]>>
\* round(x, 3), as the fraction of thousandths nearest to x
RatRound3(x) == Rat((2000 * x[1] + x[2]) \div (2 * x[2]), 1000)

(***************************************************************************)
(* Python dicts                                                            *)
(***************************************************************************)
EmptyDict == <<>>

DictHas(d, k) == \E i \in 1..Len(d) : d[i].k = k

DictGet(d, k) == d[CHOOSE i \in 1..Len(d) : d[i].k = k].v

\* d[k] = v
DictSet(d, k, v) ==
  IF DictHas(d, k)
  THEN [i \in 1..Len(d) |-> IF d[i].k = k THEN [k |-> d[i].k, v |-> v] ELSE d[i]]
  ELSE Append(d, [k |-> k, v |-> v])

\* d after `d[k] = v` for each item (k, v) of items in turn.  The items are
\* taken half by half, the first half before the second, which keeps the
\* evaluation shallow for maps of more than a hundred entries.
RECURSIVE DictUpdate(_, _)
DictUpdate(d, items) ==
  IF Len(items) = 0 THEN d
  ELSE IF Len(items) = 1 THEN DictSet(d, items[1].k, items[1].v)
  ELSE LET h == Len(items) \div 2
           left == DictUpdate(d, SubSeq(items, 1, h))
       IN IF Len(left) >= 0
          THEN DictUpdate(left, SubSeq(items, h + 1, Len(items)))
          ELSE left

\* d.get(k) with the default None
DictGetOrNone(d, k) == IF DictHas(d, k) THEN DictGet(d, k) ELSE PyNone

Item(k, v) == [k |-> k, v |-> v]

\* Optional[dict]
NoDict == [t |-> "None", d |-> <<>>]
SomeDict(d) == [t |-> "dict", d |-> d]
\* `not x` for an Optional[dict]: None and {} are both falsy
DictFalsy(x) == x.t = "None" \/ Len(x.d) = 0

(***************************************************************************)
(* int(k, 16): optional sign, optional 0x/0X prefix, hex digits of either  *)
(* case.  A non-str argument is a TypeError, anything else a ValueError;   *)
(* both are reported as ok = FALSE.  (Surrounding whitespace and digit     *)
(* separators, which int() also accepts, are not drawn by the model.)      *)
(***************************************************************************)
HexDigitVal(cp) ==
  IF cp \in 48..57 THEN cp - 48
  ELSE IF cp \in 97..102 THEN cp - 87
  ELSE IF cp \in 65..70 THEN cp - 55
  ELSE -1

RECURSIVE HexValue(_, _)
HexValue(s, acc) ==
  IF Len(s) = 0 THEN acc ELSE HexValue(Tail(s), acc * 16 + HexDigitVal(Head(s)))

DropN(s, n) == SubSeq(s, n + 1, Len(s))

PyIntBase16(k) ==
  IF ~IsStr(k) THEN [ok |-> FALSE, n |-> 0]
  ELSE
    LET s0 == k.v
        neg == Len(s0) > 0 /\ s0[1] = 45
        s1 == IF Len(s0) > 0 /\ s0[1] \in {43, 45} THEN DropN(s0, 1) ELSE s0
        s2 == IF Len(s1) >= 2 /\ s1[1] = 48 /\ s1[2] \in {120, 88}
              THEN DropN(s1, 2) ELSE s1
        good == Len(s2) > 0 /\ \A i \in 1..Len(s2) : HexDigitVal(s2[i]) >= 0
    IN IF good
       THEN [ok |-> TRUE, n |-> IF neg THEN 0 - HexValue(s2, 0) ELSE HexValue(s2, 0)]
       ELSE [ok |-> FALSE, n |-> 0]

(***************************************************************************)
(* SmartEncodingMap (models.py): a dict whose integer lookups fall back to *)
(* string spellings of the integer                                         *)
(***************************************************************************)
HexChar(dg, upper) ==
  IF dg < 10 THEN 48 + dg ELSE (IF upper THEN 55 ELSE 87) + dg

\* f"{key:x}" and f"{key:X}"
RECURSIVE FormatHex(_, _)
FormatHex(n, upper) ==
  IF n < 16 THEN <<HexChar(n, upper)>>
  ELSE FormatHex(n \div 16, upper) \o <<HexChar(n % 16, upper)>>

\* the width 2 of f"{key:02x}"
Pad2(s) == IF Len(s) < 2 THEN <<48>> \o s ELSE s

\* str(key)
RECURSIVE FormatDec(_)
FormatDec(n) ==
  IF n < 10 THEN <<48 + n>> ELSE FormatDec(n \div 10) \o <<48 + (n % 10)>>

\* SmartEncodingMap.__getitem__: found = FALSE is the KeyError
SmartGetItem(d, key) ==
  IF DictHas(d, key) THEN [found |-> TRUE, value |-> DictGet(d, key)]
  ELSE LET \* the candidates of the integer lookup fallback, in order
           SmartCandidates(n) ==
             << PyStr(<<48, 120>> \o Pad2(FormatHex(n, FALSE))),
                PyStr(<<48, 120>> \o FormatHex(n, FALSE)),
                PyStr(<<48, 88>> \o Pad2(FormatHex(n, TRUE))),
                PyStr(<<48, 88>> \o FormatHex(n, TRUE)),
                PyStr(FormatDec(n)) >>
           cands == IF IsInt(key) THEN SmartCandidates(IntOf(key)) ELSE <<>>
           hits == {i \in 1..Len(cands) : DictHas(d, cands[i])}
       IN IF hits = {} THEN [found |-> FALSE, value |-> PyNone]
          ELSE [found |-> TRUE,
                value |-> DictGet(d, cands[CHOOSE i \in hits :
                                             \A j \in hits : i <= j])]

(***************************************************************************)
(* PDF names                                                               *)
(***************************************************************************)
\* str.replace("/", "")
StripSlashes(name) == SelectSeq(name, LAMBDA c : c # "/")

\* str.lstrip("/")
RECURSIVE LStripSlash(_)
LStripSlash(name) ==
  IF Len(name) > 0 /\ Head(name) = "/" THEN LStripSlash(Tail(name)) ELSE name

\* f"/{clean_name}"
WithSlash(name) == <<"/">> \o name


(***************************************************************************)
(* Data model (models.py)                                                  *)
(***************************************************************************)
\* StrategyOptions(): the dataclass defaults
StrategyOptions ==
  [kind |-> "obj", has_min |-> TRUE, min_scale |-> 95000,
   has_max |-> TRUE, max_scale |-> 105000]

StrategyObj(mn, mx) ==
  [kind |-> "obj", has_min |-> TRUE, min_scale |-> mn,
   has_max |-> TRUE, max_scale |-> mx]

\* strategy_options given as a plain dict; a key may be missing
StrategyDict(hasmn, mn, hasmx, mx) ==
  [kind |-> "dict", has_min |-> hasmn, min_scale |-> mn,
   has_max |-> hasmx, max_scale |-> mx]

\* ReplacementRule; opts_given records whether the rule's author wrote a
\* strategy_options entry (else the field's default_factory supplies it)
ReplacementRule(src, file, tgt, emap, given, opts, pct) ==
  [source_font_name |-> src, target_font_file |-> file,
   target_font_name |-> tgt, encoding_map |-> emap,
   opts_given |-> given,
   strategy_options |-> IF given THEN opts ELSE StrategyOptions,
   fontsize_scaling_percentage |-> pct]

\* One record of the source font cache (FontData), under its cache key
SourceFont(key, t3, h) ==
  [key |-> key, is_type3 |-> t3, type3_design_height |-> h]

(***************************************************************************)
(* The configuration and caches the engine runs over                       *)
(***************************************************************************)
F1 == <<"/", "F", "1">>
F2 == <<"/", "F", "2">>
F3 == <<"/", "F", "3">>
F4 == <<"/", "F", "4">>
F5 == <<"/", "F", "5">>
F6 == <<"/", "F", "6">>
T3a == <<"/", "T", "a">>
T3b == <<"/", "T", "b">>
T3c == <<"/", "T", "c">>
Arial == <<"/", "A", "r">>

EngineRules ==
  << ReplacementRule(F1, "T.ttf", <<"/", "N", "1">>,
        <<Item(Str(<<"A">>), PyInt(10))>>, FALSE, StrategyOptions, 100000),
     ReplacementRule(F2, "U.ttf", <<"N", "2">>,
        <<Item(Str(<<"0", "x", "0", "c">>), Str(<<"fi">>))>>,
        FALSE, StrategyOptions, 100000),
     ReplacementRule(F3, "V.ttf", <<"/", "N", "3">>,
        <<Item(Str(<<"1">>), Str(<<"A">>)),
          Item(Str(<<"0", "x", "0", "2">>), Str(<<"B">>))>>,
        FALSE, StrategyOptions, 100000),
     ReplacementRule(F4, "W.ttf", <<"/", "N", "4">>, EmptyDict,
        FALSE, StrategyOptions, 50000),
     ReplacementRule(T3a, "T.ttf", <<"/", "N", "1">>, EmptyDict,
        FALSE, StrategyOptions, 100000),
     ReplacementRule(T3b, "W.ttf", <<"/", "N", "4">>, EmptyDict,
        FALSE, StrategyOptions, 150000),
     ReplacementRule(F5, "missing.ttf", <<"/", "N", "5">>,
        <<Item(Str(<<"4", "1">>), PyInt(66))>>, FALSE, StrategyOptions, 100000),
     ReplacementRule(F1, "U.ttf", <<"/", "N", "6">>, EmptyDict,
        FALSE, StrategyOptions, 100000),
     ReplacementRule(F6, "T.ttf", <<"/", "N", "1">>,
        <<Item(Str(<<"A">>), PyInt(10)), Item(Str(<<"B">>), PyInt(10))>>,
        FALSE, StrategyOptions, 100000) >>

\* custom_encoding_maps: target file -> file-level map
EngineFileMaps ==
  << Item("U.ttf", <<Item(Str(<<"fi">>), PyInt(150)),
                     Item(Str(<<"f">>), PyInt(102)),
                     Item(Str(<<"i">>), PyInt(105))>>),
     Item("V.ttf", <<Item(PyInt(10), Str(<<"A">>)),
                     Item(PyInt(11), Str(<<"B">>))>>),
     Item("W.ttf", <<Item(Str(<<"A">>), PyInt(10)),
                     Item(PyInt(200), Str(<<"B">>))>>) >>


EngineSourceFonts ==
  << SourceFont(F1, FALSE, 0), SourceFont(T3a, TRUE, 500),
     SourceFont(T3b, TRUE, 2000), SourceFont(T3c, TRUE, 20000) >>

FontNames ==
  {F1, <<"F", "1">>, <<"/", "F", "/", "1">>, F2, F3, F4, F5, F6, T3a, T3b, T3c, Arial}
FontSizes == {10000, 12000}

(***************************************************************************)
(* LayoutEngine                                                            *)
(***************************************************************************)
\* LayoutEngine.__init__: the active state of a new engine
NewEngine ==
  [current_pdf_font_name |-> [some |-> FALSE, v |-> <<>>],
   active_rule |-> 0,
   active_wrapper |-> "None",
   active_font_size |-> 1000,
   active_target_slot_map |-> NoDict,
   active_target_char_map |-> NoDict,
   active_source_hex_map |-> EmptyDict,
   current_type3_scale_factor |-> 1000]

\* next(r for r in config.rules if r.source_font_name.replace("/","") == clean_name)
FindRule(rules, clean_name) ==
  LET hits == {i \in 1..Len(rules) :
                 StripSlashes(rules[i].source_font_name) = clean_name}
  IN IF hits = {} THEN 0
     ELSE CHOOSE i \in hits : \A j \in hits : i <= j

\* step 1 of _initialize_encoding_maps: normalise the file-level map
NormaliseRawMap(raw, acc) ==
  DictUpdate(acc, [i \in 1..Len(raw) |->
                     IF IsInt(raw[i].k) /\ IsStr(raw[i].v)
                     THEN [k |-> raw[i].v, v |-> raw[i].k]
                     ELSE raw[i]])

\* Mutant of the merge: on a conflict the file-level entry is kept
MergeRuleMap_FileWins(emap, acc) == DictUpdate(emap, acc)

\* step 2a: merge the rule's entries into the target map
MergeRuleMap(emap, acc) == DictUpdate(acc, emap)

\* step 2b: populate the hex map from the keys int(k, 16) accepts
RECURSIVE PopulateHexMap(_, _)
PopulateHexMap(emap, acc) ==
  IF Len(emap) = 0 THEN acc
  ELSE LET p == PyIntBase16(Head(emap).k)
       IN PopulateHexMap(Tail(emap),
            IF p.ok THEN DictSet(acc, PyInt(p.n), Head(emap).v) ELSE acc)

\* step 3: {v: k for k, v in slot_map.items()}
InvertMap(d, acc) ==
  DictUpdate(acc, [i \in 1..Len(d) |-> [k |-> d[i].v, v |-> d[i].k]])

\* LayoutEngine._initialize_encoding_maps on the engine state e
InitializeEncodingMaps(e) ==
  LET rule == config[e.active_rule]
      raw_map == IF DictHas(custom_encoding_maps, rule.target_font_file)
                 THEN DictGet(custom_encoding_maps, rule.target_font_file)
                 ELSE EmptyDict
      slot0 == NormaliseRawMap(raw_map, EmptyDict)
      slot1 == MergeRuleMap(rule.encoding_map, slot0)
      hexm == PopulateHexMap(rule.encoding_map, e.active_source_hex_map)
  IN [e EXCEPT !.active_target_slot_map = SomeDict(slot1),
               !.active_source_hex_map = hexm,
               !.active_target_char_map =
                  IF Len(slot1) > 0 THEN SomeDict(InvertMap(slot1, EmptyDict))
                  ELSE e.active_target_char_map]

\* source_font_cache.get(key)
SourceData(key) ==
  LET hits == {i \in 1..Len(source_font_cache) : source_font_cache[i].key = key}
  IN IF hits = {} THEN [found |-> FALSE, is_type3 |-> FALSE, type3_design_height |-> 0]
     ELSE LET r == source_font_cache[CHOOSE i \in hits : TRUE]
          IN [found |-> TRUE, is_type3 |-> r.is_type3,
              type3_design_height |-> r.type3_design_height]

\* Mutants of the reset: one field is left as the previous font set it
ResetPerFontState_LeakFactor(e) ==
  [e EXCEPT !.active_wrapper = "None",
            !.active_target_slot_map = NoDict,
            !.active_target_char_map = NoDict,
            !.active_source_hex_map = EmptyDict]

ResetPerFontState_KeepHexMap(e) ==
  [e EXCEPT !.active_wrapper = "None",
            !.active_target_slot_map = NoDict,
            !.active_target_char_map = NoDict,
            !.current_type3_scale_factor = 1000]

ResetPerFontState_KeepSlotMap(e) ==
  [e EXCEPT !.active_wrapper = "None",
            !.active_target_char_map = NoDict,
            !.active_source_hex_map = EmptyDict,
            !.current_type3_scale_factor = 1000]

\* "Reset per-font state" of set_active_font
ResetPerFontState(e) ==
  [e EXCEPT !.active_wrapper = "None",
            !.active_target_slot_map = NoDict,
            !.active_target_char_map = NoDict,
            !.active_source_hex_map = EmptyDict,
            !.current_type3_scale_factor = 1000]

\* "Handle Type 3 Scaling" of set_active_font
HandleType3Scaling(e, clean_name, font_size) ==
  LET source_data == SourceData(WithSlash(clean_name))
      scale == source_data.type3_design_height
  IN IF source_data.found /\ source_data.is_type3 /\ scale > 0
     THEN [e EXCEPT !.current_type3_scale_factor = scale,
                    !.active_font_size = (font_size * scale) \div 1000]
     ELSE e

\* the manual percentage is not applied
ApplyUserScale_None(e) == e

\* "Apply User Override" of set_active_font
ApplyUserScale(e) ==
  LET user_scale == config[e.active_rule].fontsize_scaling_percentage
      d == user_scale - 100000
  IN IF (IF d < 0 THEN 0 - d ELSE d) > 1
     THEN [e EXCEPT !.active_font_size =
                      (e.active_font_size * (user_scale \div 100)) \div 1000]
     ELSE e

\* LayoutEngine.set_active_font: the engine state it leaves
SetActiveFontState(e, font_name, font_size) ==
  LET clean_name == StripSlashes(font_name)
      e1 == [e EXCEPT !.current_pdf_font_name = [some |-> TRUE, v |-> font_name],
                      !.active_font_size = font_size,
                      !.active_rule = FindRule(config, clean_name)]
      e2 == ResetPerFontState(e1)
  IN IF e2.active_rule # 0
     THEN LET file == config[e2.active_rule].target_font_file
              e3 == [e2 EXCEPT !.active_wrapper =
                        IF file \in target_font_cache THEN file ELSE "None"]
              e4 == InitializeEncodingMaps(e3)
              e5 == HandleType3Scaling(e4, clean_name, font_size)
          IN ApplyUserScale(e5)
     ELSE e2

\* LayoutEngine.set_active_font: the pair it returns, from the state it left
SetActiveFontReturn(e, font_name) ==
  [name |-> IF e.active_rule # 0
            THEN LStripSlash(config[e.active_rule].target_font_name)
            ELSE StripSlashes(font_name),
   size |-> e.active_font_size]

(***************************************************************************)
(* Text operands.  An item of a text operand is a string (its bytes) or a  *)
(* number (thousandths of text space, as written in the TJ array).  The    *)
(* operand list of Tj and ' is one string; that of TJ is one array, given  *)
(* here by its items.                                                      *)
(***************************************************************************)
StrItem(bs) == [t |-> "str", v |-> bs]
NumItem(n) == [t |-> "num", v |-> RatInt(n)]
IsNum(item) == item.t = "num"

\* LayoutEngine._map_source_byte: the slot it returns (None when unmapped)
MapSourceByte(e, b) ==
  IF e.active_rule = 0 \/ DictFalsy(e.active_target_slot_map) THEN PyNone
  ELSE LET h == DictGetOrNone(e.active_source_hex_map, PyInt(b))
           char_b == IF h = PyNone THEN PyStr(<<b>>) ELSE h
       IN IF Truthy(char_b) /\ DictHas(e.active_target_slot_map.d, char_b)
          THEN DictGet(e.active_target_slot_map.d, char_b)
          ELSE PyNone

\* bytearray.append(x) succeeds only for an int in range(0, 256)
AppendOk(x) == IsInt(x) /\ IntOf(x) >= 0 /\ IntOf(x) <= 255

\* LayoutEngine._rewrite_string on the bytes bs
RewriteString(e, bs) ==
  LET slot(i) == MapSourceByte(e, bs[i])
      bad == \E i \in 1..Len(bs) : slot(i) # PyNone /\ ~AppendOk(slot(i))
  IN [raised |-> bad,
      bytes |-> IF bad THEN <<>>
                ELSE [i \in 1..Len(bs) |->
                        IF slot(i) # PyNone THEN IntOf(slot(i)) ELSE bs[i]]]

\* LayoutEngine.rewrite_text_operands
RewriteTextOperands(e, op, items) ==
  IF e.active_rule = 0 \/ DictFalsy(e.active_target_slot_map)
  THEN [raised |-> FALSE, out |-> items]
  ELSE IF op = "TJ"
  THEN LET r(i) == RewriteString(e, items[i].v)
           bad == \E i \in 1..Len(items) : ~IsNum(items[i]) /\ r(i).raised
       IN [raised |-> bad,
           out |-> IF bad THEN <<>>
                   ELSE [i \in 1..Len(items) |->
                           IF IsNum(items[i]) THEN items[i]
                           ELSE StrItem(r(i).bytes)]]
  ELSE LET r1 == RewriteString(e, items[1].v)
       IN [raised |-> r1.raised,
           out |-> IF r1.raised THEN <<>>
                   ELSE <<StrItem(r1.bytes)>> \o SubSeq(items, 2, Len(items))]

(***************************************************************************)
(* Widths.  Lengths are thousandths of a point; glyph advances are in      *)
(* 1/1000 of the font size.                                                *)
(***************************************************************************)
\* cmap and hmtx of the target font files, already normalised to 1000 units
\* per em: code point -> advance, and the advance of the fallback glyph
WrapperAdvances == [A |-> 500, B |-> 600, fallback |-> 250]

\* FontWrapper.get_char_width(char)
GetCharWidth(char) ==
  IF ~Truthy(char) THEN [raised |-> FALSE, w |-> 0]
  ELSE IF ~(IsStr(char) /\ Len(char.v) = 1) THEN [raised |-> TRUE, w |-> 0]
  ELSE [raised |-> FALSE,
        w |-> IF char.v[1] = 65 THEN WrapperAdvances.A
              ELSE IF char.v[1] = 66 THEN WrapperAdvances.B
              ELSE WrapperAdvances.fallback]

\* LayoutEngine._map_target_byte_to_char
MapTargetByteToChar(e, b) ==
  IF DictFalsy(e.active_target_char_map) THEN PyNone
  ELSE DictGetOrNone(e.active_target_char_map.d, PyInt(b))

\* LayoutEngine._compute_target_string_width
ComputeTargetStringWidth(e, bs) ==
  LET tc(i) == LET m == MapTargetByteToChar(e, bs[i])
               IN IF Truthy(m) THEN m
                  ELSE IF 32 <= bs[i] /\ bs[i] <= 126 THEN PyStr(<<bs[i]>>)
                  ELSE PyNone
      cw(i) == IF Truthy(tc(i)) THEN GetCharWidth(tc(i))
               ELSE [raised |-> FALSE, w |-> 0]
      sum[i \in 0..Len(bs)] ==
        IF i = 0 THEN 0
        ELSE sum[i - 1] + (cw(i).w * e.active_font_size) \div 1000
  IN [raised |-> \E i \in 1..Len(bs) : cw(i).raised, w |-> sum[Len(bs)]]

\* LayoutEngine._process_target_item
ProcessTargetItem(e, item) ==
  IF IsNum(item)
  THEN [raised |-> FALSE,
        w |-> 0 - ((item.v[1] * e.active_font_size) \div (item.v[2] * 1000))]
  ELSE ComputeTargetStringWidth(e, item.v)

\* LayoutEngine.calculate_target_visual_width
CalculateTargetVisualWidth(e, op, operands) ==
  IF e.active_wrapper = "None" THEN [raised |-> FALSE, w |-> 1000]
  ELSE LET items == IF op = "TJ" THEN operands ELSE <<operands[1]>>
           r(i) == ProcessTargetItem(e, items[i])
           sum[i \in 0..Len(items)] ==
             IF i = 0 THEN 0 ELSE sum[i - 1] + r(i).w
       IN [raised |-> \E i \in 1..Len(items) : r(i).raised,
           w |-> sum[Len(items)]]

\* One font of the page's font dictionary: its key, whether it carries
\* /Widths, /FirstChar and /LastChar, those entries, FontMatrix[0] in
\* millionths and the descriptor's MissingWidth
PageFont(key, has, widths, first, lastc, fm0, missing) ==
  [key |-> key, has_metrics |-> has, widths |-> widths, first_char |-> first,
   last_char |-> lastc, font_matrix0 |-> fm0, missing_width |-> missing]

\* LayoutEngine._get_source_font_metrics
GetSourceFontMetrics(e) ==
  LET none == [found |-> FALSE, m |-> PageFont(<<>>, FALSE, <<>>, 0, 0, 0, 0)]
      name == e.current_pdf_font_name.v
      at(key) == {i \in 1..Len(source_pikepdf_fonts) :
                    source_pikepdf_fonts[i].key = key}
      hits == IF at(WithSlash(name)) # {} THEN at(WithSlash(name)) ELSE at(name)
  IN IF ~e.current_pdf_font_name.some \/ Len(name) = 0 \/ hits = {} THEN none
     ELSE LET f == source_pikepdf_fonts[CHOOSE i \in hits : TRUE]
          IN IF f.has_metrics THEN [found |-> TRUE, m |-> f] ELSE none

\* LayoutEngine._compute_source_string_width: the width sum of the bytes
ComputeSourceStringWidth(bs, m) ==
  LET w(i) == LET idx == bs[i] - m.first_char
              IN IF m.first_char <= bs[i] /\ bs[i] <= m.last_char
                    /\ 0 <= idx /\ idx < Len(m.widths)
                 THEN m.widths[idx + 1] ELSE m.missing_width
      sum[i \in 0..Len(bs)] == IF i = 0 THEN 0 ELSE sum[i - 1] + w(i)
  IN sum[Len(bs)]

\* LayoutEngine._sum_source_widths
SumSourceWidths(items, m) ==
  LET g[i \in 0..Len(items)] ==
        IF i = 0 THEN [glyph |-> 0, gap |-> 0, count |-> 0]
        ELSE IF IsNum(items[i])
             THEN [g[i - 1] EXCEPT !.gap = @ + items[i].v[1] \div items[i].v[2]]
             ELSE [g[i - 1] EXCEPT
                     !.glyph = @ + ComputeSourceStringWidth(items[i].v, m),
                     !.count = @ + Len(items[i].v)]
  IN g[Len(items)]

\* LayoutEngine._finalize_source_width; state is the source stream's text
\* state: fontsize, matrix[0] and ctm[0]
FinalizeSourceWidth(e, g, fm0, state) ==
  LET fs_tm_ctm == Abs((((state.fontsize * state.tm_x) \div 1000)
                          * state.ctm_x) \div 1000)
      glyph_scale == Abs((fs_tm_ctm * fm0) \div 1000)
      final_width == (g.glyph * glyph_scale) \div 1000
                       - (g.gap * fs_tm_ctm) \div 1000
      estimated_em_width == (fs_tm_ctm * e.current_type3_scale_factor) \div 1000
  IN IF g.count > 0 /\ 10 * final_width < estimated_em_width * g.count
     THEN (estimated_em_width * g.count) \div 2
     ELSE final_width

\* LayoutEngine.calculate_source_width_fallback
CalculateSourceWidthFallback(e, op, operands, state) ==
  IF op \notin {"Tj", "TJ"} THEN 0
  ELSE LET metrics == GetSourceFontMetrics(e)
           items == IF op = "TJ" THEN operands ELSE <<operands[1]>>
       IN IF ~metrics.found THEN 0
          ELSE FinalizeSourceWidth(e, SumSourceWidths(items, metrics.m),
                                   metrics.m.font_matrix0, state)

(***************************************************************************)
(* The text-showing handler (handlers.py).  A scale percentage is a        *)
(* fraction of percent; an option value is in thousandths of a percent.    *)
(***************************************************************************)
\* scale_tj_array: every number of the array times source_fs / target_fs
ScaleTjArray(e, items, source_fs) ==
  LET target_fs == IF e.active_font_size < 1 THEN 1000 ELSE e.active_font_size
  IN [i \in 1..Len(items) |->
        IF IsNum(items[i])
        THEN [t |-> "num",
              v |-> Rat(items[i].v[1] * source_fs, items[i].v[2] * target_fs)]
        ELSE items[i]]

\* the clamp bounds calculate_scale_percent derives from strategy_options
ClampLimits(opts) ==
  LET has_user == opts.kind \in {"obj", "dict"}
      user_min == IF opts.has_min THEN opts.min_scale ELSE 50000
      user_max == IF opts.has_max THEN opts.max_scale ELSE 200000
  IN [limit_min |-> IF has_user /\ user_min > 0 THEN user_min ELSE 50000,
      limit_max |-> IF has_user /\ user_max > user_min THEN user_max ELSE 200000]

\* the measured width, or the metric fallback when nothing was measured
InputWidth(e, op, original_operands, state) ==
  IF state.displacement < 1
  THEN CalculateSourceWidthFallback(e, op, original_operands, state)
  ELSE state.displacement

\* Mutant: the result is not clamped
CalculateScalePercent_NoClamp(e, op, active_operands, original_operands, state) ==
  LET t == CalculateTargetVisualWidth(e, op, active_operands)
      input_width == InputWidth(e, op, original_operands, state)
      lim == ClampLimits(config[e.active_rule].strategy_options)
  IN [raised |-> t.raised, input_width |-> input_width, target_width |-> t.w,
      limit_min |-> lim.limit_min, limit_max |-> lim.limit_max,
      scale_percent |->
        IF ~t.raised /\ input_width > 1 /\ t.w > 1
        THEN Rat(100 * input_width, t.w)
        ELSE RatInt(100)]

\* calculate_scale_percent; state carries the source stream's text state and
\* the distance the text position moved over the operator
CalculateScalePercent(e, op, active_operands, original_operands, state) ==
  LET t == CalculateTargetVisualWidth(e, op, active_operands)
      input_width == InputWidth(e, op, original_operands, state)
      lim == ClampLimits(config[e.active_rule].strategy_options)
  IN [raised |-> t.raised, input_width |-> input_width, target_width |-> t.w,
      limit_min |-> lim.limit_min, limit_max |-> lim.limit_max,
      scale_percent |->
        IF ~t.raised /\ input_width > 1 /\ t.w > 1
        THEN RatMax(Rat(lim.limit_min, 1000),
                    RatMin(Rat(100 * input_width, t.w), Rat(lim.limit_max, 1000)))
        ELSE RatInt(100)]

\* An emitted operator: Tm with six numbers, Tz with a fraction, or a
\* text-showing operator with its items
TmOp(m) == [op |-> "Tm", num |-> m, items |-> <<>>]
TzOp(x) == [op |-> "Tz", num |-> x, items |-> <<>>]
TextOp(op, items) == [op |-> op, num |-> <<>>, items |-> items]

\* StateTracker.get_matrices()[1][1, 1], the vertical scale of Tm x CTM
TrmVerticalScale(output_state) ==
  (output_state.tm[4] * output_state.ctm_d) \div 1000

\* get_type3_matrix_ops
GetType3MatrixOps(output_state, e) ==
  LET is_t3 == Abs(e.current_type3_scale_factor - 1000) > 0
      current_tm == output_state.tm
  IN IF ~is_t3 \/ TrmVerticalScale(output_state) >= 0
     THEN [inv |-> FALSE, apply |-> <<>>, restore |-> <<>>]
     ELSE [inv |-> TRUE,
           apply |-> <<TmOp([current_tm EXCEPT ![4] = Abs(@)])>>,
           restore |-> <<TmOp(current_tm)>>]

\* Mutant: the reset of the scaling is dropped
GenerateTextOps_NoReset(op, active_operands, scale_percent, output_state, e) ==
  LET t3 == GetType3MatrixOps(output_state, e)
      scaled == RatLt(RatInt(1), RatAbs(RatSub(scale_percent, RatInt(100))))
  IN t3.apply
     \o (IF scaled THEN <<TzOp(RatRound3(scale_percent))>> ELSE <<>>)
     \o <<TextOp(op, active_operands)>>
     \o t3.restore

\* generate_text_ops
GenerateTextOps(op, active_operands, scale_percent, output_state, e) ==
  LET t3 == GetType3MatrixOps(output_state, e)
      scaled == RatLt(RatInt(1), RatAbs(RatSub(scale_percent, RatInt(100))))
  IN t3.apply
     \o (IF scaled THEN <<TzOp(RatRound3(scale_percent))>> ELSE <<>>)
     \o <<TextOp(op, active_operands)>>
     \o (IF scaled THEN <<TzOp(RatInt(100))>> ELSE <<>>)
     \o t3.restore

\* Mutant of the handler: without an active rule the operator is wrapped
\* in the scale pair all the same
HandleTextShowResult_NoPass(e, op, operands, state, output_state) ==
  LET none == [raised |-> FALSE, input_width |-> 0, target_width |-> 0,
               limit_min |-> 0, limit_max |-> 0, scale_percent |-> RatInt(100)]
  IN IF e.active_rule = 0
     THEN [passed |-> FALSE, raised |-> FALSE, calc |-> none,
           ops |-> GenerateTextOps(op, operands, RatInt(100), output_state, e)]
     ELSE LET r == RewriteTextOperands(e, op, operands)
              active_operands ==
                IF r.raised THEN <<>>
                ELSE IF op = "TJ" THEN ScaleTjArray(e, r.out, state.fontsize)
                ELSE r.out
              calc == IF r.raised THEN [none EXCEPT !.raised = TRUE]
                      ELSE CalculateScalePercent(e, op, active_operands,
                                                 operands, state)
          IN [passed |-> FALSE, raised |-> calc.raised, calc |-> calc,
              ops |-> IF calc.raised THEN <<>>
                      ELSE GenerateTextOps(op, active_operands,
                                           calc.scale_percent, output_state, e)]

\* handle_text_show: what it emits for the operator, or that it raised
HandleTextShowResult(e, op, operands, state, output_state) ==
  LET none == [raised |-> FALSE, input_width |-> 0, target_width |-> 0,
               limit_min |-> 0, limit_max |-> 0, scale_percent |-> RatInt(100)]
  IN IF e.active_rule = 0
     THEN [passed |-> TRUE, raised |-> FALSE, calc |-> none,
           ops |-> <<TextOp(op, operands)>>]
     ELSE LET r == RewriteTextOperands(e, op, operands)
              active_operands ==
                IF r.raised THEN <<>>
                ELSE IF op = "TJ" THEN ScaleTjArray(e, r.out, state.fontsize)
                ELSE r.out
              calc == IF r.raised THEN [none EXCEPT !.raised = TRUE]
                      ELSE CalculateScalePercent(e, op, active_operands,
                                                 operands, state)
          IN [passed |-> FALSE, raised |-> calc.raised, calc |-> calc,
              ops |-> IF calc.raised THEN <<>>
                      ELSE GenerateTextOps(op, active_operands,
                                           calc.scale_percent, output_state, e)]

(***************************************************************************)
(* Inputs                                                                  *)
(***************************************************************************)
\* strings over the bytes 0x0c, "1", "A", "B"
ByteStrings(len) == UNION {[1..n -> {12, 49, 65, 66}] : n \in 0..len}
StringOperands == {<<StrItem(bs)>> : bs \in ByteStrings(MaxStrLen)}
QuoteOperands == {<<StrItem(bs)>> : bs \in ByteStrings(1)}
ArrayOperands ==
  LET ArrayItems == {StrItem(bs) : bs \in {<<65>>, <<49>>, <<66, 12>>}}
                      \cup {NumItem(50)}
  IN UNION {[1..n -> ArrayItems] : n \in 0..MaxItems}

Engines == {1, 2}

(***************************************************************************)
(* State                                                                   *)
(***************************************************************************)
\* history of an engine: the arguments of its most recent set_active_font
\* call, whether that call was the first call the engine served, and
\* whether it has served any call
NoSel == [some |-> FALSE, name |-> <<>>, size |-> 0, first |-> FALSE, used |-> FALSE]

\* the text matrix of a stream: the matrix the last Tm set, and whether a
\* text-showing operator with glyphs has advanced it since
TextMatrix(m, shown) == [m |-> m, shown |-> shown]


\* no font dictionary under inspection
NoFontData ==
  [pc |-> "none", font_dict |-> [subtype |-> "", bbox |-> <<>>, has_bbox |-> FALSE,
                                 has_charprocs |-> FALSE, charprocs |-> <<>>],
   is_type3 |-> FALSE, valid_samples |-> 0, raised |-> FALSE,
   type3_design_height |-> 0, type3_design_width |-> 0]

\* no font file being embedded.  A font file is its head.unitsPerEm, its
\* best cmap (code point: glyph name) and its hmtx (glyph name: advance)
NoFont ==
  [pc |-> "none", units_per_em |-> 1000, cmap |-> <<>>, hmtx |-> <<>>,
   custom_map |-> <<>>, widths |-> <<>>]

\* the target font files a configuration may name
PipeFiles == {"T.ttf", "U.ttf"}

\* process_pdf: where the run stands (pc), the index of the rule or page it
\* is at, the state of each font file on disk, how often each file was
\* loaded, assigned slots and embedded, the pages visited, the pages whose
\* error was logged, the pages whose resources were updated, whether a
\* page is being processed, whether the engine of the page before had an
\* active rule when that page ended, and the exception the run ended with
NoRun ==
  [pc |-> "idle", i |-> 0,
   files |-> [f \in PipeFiles |-> "ok"],
   loads |-> [f \in PipeFiles |-> 0],
   assigned |-> [f \in PipeFiles |-> 0],
   embedded |-> [f \in PipeFiles |-> 0],
   visited |-> <<>>, errors |-> <<>>, updated |-> {},
   in_page |-> FALSE, left_active |-> FALSE, exc |-> ""]

\* the most recent call and what it returned
NoLast ==
  [kind |-> "none", e |-> 0,
   name |-> <<>>, size |-> 0, ret_name |-> <<>>, ret_size |-> 0,
   prev_factor |-> 1000,
   op |-> "", items |-> <<>>, raised |-> FALSE, out |-> <<>>,
   passed |-> FALSE, ops |-> <<>>,
   calc |-> [raised |-> FALSE, input_width |-> 0, target_width |-> 0,
             limit_min |-> 0, limit_max |-> 0, scale_percent |-> RatInt(100)],
   state |-> [fontsize |-> 0, tm_x |-> 0, ctm_x |-> 0, displacement |-> 0],
   output_state |-> [tm |-> <<>>, ctm_d |-> 0], hs_before |-> RatInt(100),
   tm_after |-> TextMatrix(<<>>, FALSE), tm_expected |-> TextMatrix(<<>>, FALSE),
   key |-> PyNone, found |-> FALSE, value |-> PyNone]

Init ==
  /\ config = EngineRules
  /\ custom_encoding_maps = EngineFileMaps
  /\ target_font_cache = {"T.ttf", "U.ttf", "V.ttf", "W.ttf"}
  /\ source_font_cache = EngineSourceFonts
  /\ source_pikepdf_fonts = <<>>
  /\ tz = [src |-> RatInt(100), out |-> RatInt(100)]
  /\ eng = [i \in Engines |-> NewEngine]
  /\ sel = [i \in Engines |-> NoSel]
  /\ last = NoLast
  /\ run = NoRun
  /\ fd = NoFontData
  /\ tt = NoFont

\* handle_set_font on the operands [name, size]: the call
\* engine.set_active_font(name, size) and the Tf operator emitted with the
\* name and size it returned
SetActiveFont(i, name, size) ==
  LET e2 == SetActiveFontState(eng[i], name, size)
      r == SetActiveFontReturn(e2, name)
  IN /\ eng' = [eng EXCEPT ![i] = e2]
     /\ sel' = [sel EXCEPT ![i] = [some |-> TRUE, name |-> name, size |-> size,
                                  first |-> ~sel[i].used, used |-> TRUE]]
     /\ last' = [NoLast EXCEPT !.kind = "Tf", !.e = i, !.name = name,
                   !.size = size, !.ret_name = r.name, !.ret_size = r.size,
                   !.prev_factor = eng[i].current_type3_scale_factor,
                   !.ops = << [op |-> "Tf", num |-> <<>>,
                               items |-> << [t |-> "name", v |-> <<"/">> \o r.name],
                                            [t |-> "num", v |-> r.size] >>] >>]
     /\ UNCHANGED <<tt, fd, config, custom_encoding_maps, target_font_cache,
                    source_font_cache, source_pikepdf_fonts, run, tz>>

\* engine.rewrite_text_operands(op, operands)
RewriteText(i, op, items) ==
  LET r == RewriteTextOperands(eng[i], op, items)
  IN /\ last' = [NoLast EXCEPT !.kind = "rewrite", !.e = i, !.op = op,
                   !.items = items, !.raised = r.raised, !.out = r.out]
     /\ sel' = [sel EXCEPT ![i].used = TRUE]
     /\ UNCHANGED <<tt, fd, config, custom_encoding_maps, target_font_cache,
                    source_font_cache, source_pikepdf_fonts, run, eng, tz>>

SelectFont == \E name \in FontNames, size \in FontSizes : SetActiveFont(1, name, size)
RewriteString1 == \E items \in StringOperands : RewriteText(1, "Tj", items)
RewriteQuote == \E items \in QuoteOperands : RewriteText(1, "'", items)
RewriteArray == \E items \in ArrayOperands : RewriteText(1, "TJ", items)

Next == SelectFont \/ RewriteString1 \/ RewriteQuote \/ RewriteArray

Spec == Init /\ [][Next]_vars

(***************************************************************************)
(* One content stream run through the handlers: Tf, the text-showing       *)
(* operators, and Tz (which no handler is registered for) passing through  *)
(***************************************************************************)
HandlerRules ==
  << ReplacementRule(F1, "T.ttf", <<"/", "N", "1">>, EmptyDict,
        FALSE, StrategyOptions, 100000),
     ReplacementRule(F2, "T.ttf", <<"/", "N", "1">>, EmptyDict,
        TRUE, StrategyObj(1000, 1000000), 100000),
     ReplacementRule(F3, "T.ttf", <<"/", "N", "1">>, EmptyDict,
        TRUE, StrategyDict(FALSE, 0, FALSE, 0), 100000),
     ReplacementRule(F4, "T.ttf", <<"/", "N", "1">>, EmptyDict,
        TRUE, StrategyObj(300000, 200000), 100000),
     ReplacementRule(F6, "T.ttf", <<"/", "N", "1">>, EmptyDict,
        TRUE, StrategyDict(TRUE, -5000, TRUE, 10000), 100000),
     ReplacementRule(F5, "T.ttf", <<"/", "N", "1">>,
        <<Item(Str(<<"1">>), Str(<<"A">>))>>,
        TRUE, StrategyDict(FALSE, 0, FALSE, 0), 100000),
     ReplacementRule(T3a, "T.ttf", <<"/", "N", "1">>, EmptyDict,
        TRUE, StrategyDict(FALSE, 0, FALSE, 0), 100000),
     ReplacementRule(T3b, "T.ttf", <<"/", "N", "1">>, EmptyDict,
        TRUE, StrategyDict(FALSE, 0, FALSE, 0), 100000),
     ReplacementRule(T3c, "T.ttf", <<"/", "N", "1">>, EmptyDict,
        TRUE, StrategyDict(FALSE, 0, FALSE, 0), 100000) >>

HandlerFileMaps ==
  << Item("T.ttf", <<Item(PyInt(10), Str(<<"A">>)),
                     Item(PyInt(11), Str(<<"B">>))>>) >>

\* design heights 0.5 and 1.0, and 0 (no glyph parsed)
HandlerSourceFonts ==
  << SourceFont(F1, FALSE, 0), SourceFont(T3a, TRUE, 500),
     SourceFont(T3b, TRUE, 1000), SourceFont(T3c, TRUE, 0) >>

HandlerPageFonts ==
  << PageFont(F1, TRUE, <<1000, 600>>, 65, 66, 1000, 0),
     PageFont(F2, FALSE, <<>>, 0, 0, 1000, 0),
     PageFont(T3a, TRUE, <<1000, 600>>, 65, 66, 1000, 300) >>

Displacements == {0, 1, 10000}
OutputStates ==
  { [tm |-> <<1000, 0, 0, 1000, 72000, 700000>>, ctm_d |-> 1000],
    [tm |-> <<1000, 0, 0, -1000, 72000, 700000>>, ctm_d |-> 1000],
    [tm |-> <<1000, 0, 0, 1000, 72000, 700000>>, ctm_d |-> -1000] }

InitHandler ==
  /\ config = HandlerRules
  /\ custom_encoding_maps = HandlerFileMaps
  /\ target_font_cache = {"T.ttf"}
  /\ source_font_cache = HandlerSourceFonts
  /\ source_pikepdf_fonts = HandlerPageFonts
  /\ tz = [src |-> RatInt(100), out |-> RatInt(100)]
  /\ eng = [i \in Engines |-> NewEngine]
  /\ sel = [i \in Engines |-> NoSel]
  /\ last = NoLast
  /\ run = NoRun
  /\ fd = NoFontData
  /\ tt = NoFont

\* the effect of emitted operators on the output stream's horizontal
\* scaling and text matrix
RECURSIVE ApplyOps(_, _, _)
ApplyOps(ops, hs, tm) ==
  IF Len(ops) = 0 THEN [hs |-> hs, tm |-> tm]
  ELSE LET o == Head(ops)
       IN IF o.op = "Tz" THEN ApplyOps(Tail(ops), o.num, tm)
          ELSE IF o.op = "Tm" THEN ApplyOps(Tail(ops), hs, TextMatrix(o.num, FALSE))
          ELSE ApplyOps(Tail(ops), hs,
                 [tm EXCEPT !.shown =
                    @ \/ \E i \in 1..Len(o.items) :
                            ~IsNum(o.items[i]) /\ Len(o.items[i].v) > 0])

\* handle_text_show on the operator op, and the emitted operators reaching
\* the output stream
HandleTextShow(op, operands, displacement, output_state) ==
  LET state == [fontsize |-> IF sel[1].some THEN sel[1].size ELSE 1000,
                tm_x |-> output_state.tm[1], ctm_x |-> 1000,
                displacement |-> displacement]
      tm == TextMatrix(output_state.tm, FALSE)
  IN \E r \in {HandleTextShowResult(eng[1], op, operands, state, output_state)} :
     \E after \in {ApplyOps(r.ops, tz.out, tm)} :
     /\ tz' = [tz EXCEPT !.out = after.hs]
     /\ last' = [NoLast EXCEPT !.kind = "show", !.e = 1, !.op = op,
                   !.items = operands, !.raised = r.raised, !.passed = r.passed,
                   !.ops = r.ops, !.calc = r.calc, !.state = state,
                   !.output_state = output_state, !.hs_before = tz.out,
                   !.tm_after = after.tm,
                   !.tm_expected =
                      ApplyOps(<<TextOp(op, operands)>>, tz.src, tm).tm]
     /\ sel' = [sel EXCEPT ![1].used = TRUE]
     /\ UNCHANGED <<tt, fd, config, custom_encoding_maps, target_font_cache,
                    source_font_cache, source_pikepdf_fonts, run, eng>>

\* a Tz operator of the source stream: it reaches the output unchanged
PassTz ==
  \E v \in {80, 100} :
     /\ tz' = [src |-> RatInt(v), out |-> RatInt(v)]
     /\ last' = [NoLast EXCEPT !.kind = "Tz"]
     /\ UNCHANGED <<tt, fd, config, custom_encoding_maps, target_font_cache,
                    source_font_cache, source_pikepdf_fonts, run, eng, sel>>

HandlerSelectFont ==
  \E name \in {F1, F2, F3, F4, F5, F6, T3a, T3b, T3c, Arial}, size \in {10000} :
     SetActiveFont(1, name, size)
ShowString ==
  \E bs \in {<<>>, <<65>>, <<49>>, <<65, 66>>}, d \in Displacements, o \in OutputStates :
     HandleTextShow("Tj", <<StrItem(bs)>>, d, o)
ShowQuote ==
  \E d \in Displacements, o \in OutputStates :
     HandleTextShow("'", <<StrItem(<<65>>)>>, d, o)
ShowArray ==
  \* [(A) 50 (A)] and [50]
  \E items \in { <<StrItem(<<65>>), NumItem(50), StrItem(<<65>>)>>, <<NumItem(50)>> },
     d \in Displacements, o \in OutputStates :
     HandleTextShow("TJ", items, d, o)

\* engine.rewrite_text_operands called on its own
HandlerRewrite ==
  \E o \in { [op |-> "Tj", items |-> <<StrItem(<<65>>)>>],
              [op |-> "TJ", items |-> <<StrItem(<<65, 49>>), NumItem(50),
                                        StrItem(<<12>>)>>] } :
     RewriteText(1, o.op, o.items)

NextHandler ==
  \/ HandlerSelectFont \/ ShowString \/ ShowQuote \/ ShowArray \/ PassTz
  \/ HandlerRewrite

SpecHandler == InitHandler /\ [][NextHandler]_vars

(***************************************************************************)
(* One rule whose encoding map has one hex-keyed entry, looked up by       *)
(* integer and loaded into the engine                                      *)
(***************************************************************************)
\* 0x0c, 0x41, 0x4a
LookupCodes == {12, 65, 74}

\* One rule per hex spelling of a code: no prefix, 0x or 0X; lower or upper
\* case digits; one leading zero or none
LookupRules ==
  LET Spellings(n) ==
        { prefix \o digits :
            prefix \in {<<>>, <<48, 120>>, <<48, 88>>},
            digits \in {FormatHex(n, FALSE), FormatHex(n, TRUE),
                        Pad2(FormatHex(n, FALSE)), Pad2(FormatHex(n, TRUE))} }
  IN { << ReplacementRule(F1, "T.ttf", <<"/", "N", "1">>,
             <<Item(PyStr(k), Str(<<"A">>))>>, FALSE, StrategyOptions, 100000) >> :
         k \in UNION {Spellings(n) : n \in LookupCodes} }

InitLookup ==
  /\ config \in LookupRules
  /\ custom_encoding_maps = <<>>
  /\ target_font_cache = {"T.ttf"}
  /\ source_font_cache = <<>>
  /\ source_pikepdf_fonts = <<>>
  /\ tz = [src |-> RatInt(100), out |-> RatInt(100)]
  /\ eng = [i \in Engines |-> NewEngine]
  /\ sel = [i \in Engines |-> NoSel]
  /\ last = NoLast
  /\ run = NoRun
  /\ fd = NoFontData
  /\ tt = NoFont

\* rule.encoding_map[n]
LookupGetItem ==
  \E n \in LookupCodes \cup {41} :
     /\ last' = [NoLast EXCEPT !.kind = "getitem", !.key = PyInt(n),
                   !.found = SmartGetItem(config[1].encoding_map, PyInt(n)).found,
                   !.value = SmartGetItem(config[1].encoding_map, PyInt(n)).value]
     /\ UNCHANGED <<tt, fd, config, custom_encoding_maps, target_font_cache,
                    source_font_cache, source_pikepdf_fonts, run, eng, sel, tz>>


NextLookup == SetActiveFont(1, F1, 10000) \/ LookupGetItem

SpecLookup == InitLookup /\ [][NextLookup]_vars

(***************************************************************************)
(* process_pdf (core.py): inspect the source, load the target fonts and    *)
(* register the characters they need, embed the fonts, process the pages   *)
(* one by one, save                                                        *)
(***************************************************************************)
\* Rules 1 and 3 share T.ttf; rule 1 requires the n characters from code
\* point 200 on, rule 3 one more, rule 2 "A" (printable ASCII) and the
\* ligature fi
PipelineRules(n) ==
  << ReplacementRule(F1, "T.ttf", <<"/", "N", "1">>,
        <<Item(Str(<<"0", "x", "0", "c">>), PyStr([i \in 1..n |-> 199 + i]))>>,
        FALSE, StrategyOptions, 100000),
     ReplacementRule(F2, "U.ttf", <<"/", "N", "2">>,
        <<Item(Str(<<"0", "x", "0", "2">>), Str(<<"A", "fi">>))>>,
        FALSE, StrategyOptions, 100000),
     ReplacementRule(F3, "T.ttf", <<"/", "N", "1">>,
        <<Item(Str(<<"0", "x", "0", "c">>), PyStr(<<150>>))>>,
        FALSE, StrategyOptions, 100000) >>


\* The configurations of a run: the rules above, and one pair of rules for
\* T.ttf in both orders, the first of them with its two entries in both
\* orders, and one rule whose mapping target is an integer slot
InitPipeline ==
  /\ LET e1 == Item(Str(<<"0", "x", "0", "c">>), PyStr(<<300, 150>>))
         e2 == Item(Str(<<"0", "x", "0", "2">>), PyStr(<<140, 300, 66>>))
         a(emap) == ReplacementRule(F1, "T.ttf", <<"/", "N", "1">>, emap,
                                    FALSE, StrategyOptions, 100000)
         b == ReplacementRule(F3, "T.ttf", <<"/", "N", "1">>,
                 <<Item(Str(<<"0", "x", "0", "c">>), PyStr(<<160, 150>>))>>,
                 FALSE, StrategyOptions, 100000)
     IN config \in {PipelineRules(n) : n \in {1, MaxRequired}}
                     \cup { <<a(<<e1, e2>>), b>>, <<b, a(<<e1, e2>>)>>,
                            <<a(<<e2, e1>>), b>>, <<b, a(<<e2, e1>>)>> }
                     \cup { <<a(<<Item(Str(<<"A">>), PyInt(10))>>)>> }
  /\ custom_encoding_maps = <<>>
  /\ target_font_cache = {}
  /\ source_font_cache = <<>>
  /\ source_pikepdf_fonts = <<>>
  /\ tz = [src |-> RatInt(100), out |-> RatInt(100)]
  /\ eng = [i \in Engines |-> NewEngine]
  /\ sel = [i \in Engines |-> NoSel]
  /\ last = NoLast
  /\ fd = NoFontData
  /\ tt = NoFont
  /\ \E st \in {"ok", "missing", "unparsable"} :
       run = [NoRun EXCEPT !.pc = "inspect", !.files["T.ttf"] = st]

\* step 1 of process_pdf: inspect_pdf, or {} when it raises PdfError or
\* ValueError
Inspect ==
  /\ run.pc = "inspect"
  /\ source_font_cache' \in {<< SourceFont(F1, FALSE, 0) >>, <<>>}
  /\ run' = [run EXCEPT !.pc = "load", !.i = 1]
  /\ UNCHANGED <<tt, fd, config, custom_encoding_maps, target_font_cache,
                 source_pikepdf_fonts, eng, sel, tz, last>>

\* the characters of a rule's mapping targets, in order; an int target
\* cannot be iterated
RECURSIVE RegisterRequiredCharacters(_, _)
RegisterRequiredCharacters(values, m) ==
  IF Len(values) = 0 THEN [raised |-> FALSE, m |-> m]
  ELSE IF ~IsStr(Head(values)) THEN [raised |-> TRUE, m |-> m]
  ELSE LET chars == Head(values).v
           \* the positions whose character gets a new entry
           new == {i \in 1..Len(chars) :
                     /\ ~(32 <= chars[i] /\ chars[i] <= 126)
                     /\ ~DictHas(m, PyStr(<<chars[i]>>))
                     /\ \A j \in 1..(i - 1) : chars[j] # chars[i]}
           nth(k) == CHOOSE i \in new : Cardinality({j \in new : j < i}) = k - 1
           added == [k \in 1..Cardinality(new) |->
                       Item(PyStr(<<chars[nth(k)]>>), PyInt(-1))]
       IN RegisterRequiredCharacters(Tail(values), m \o added)

\* one iteration of the loop "Pre-load Metrics & Initialize Maps"
LoadRule ==
  /\ run.pc = "load"
  /\ LET rule == config[run.i]
         fname == rule.target_font_file
         cached == fname \in target_font_cache
         next == [run EXCEPT !.pc = IF run.i = Len(config) THEN "embed" ELSE "load",
                             !.i = IF run.i = Len(config) THEN 1 ELSE run.i + 1]
     IN IF ~cached /\ run.files[fname] = "unparsable"
        THEN /\ run' = [run EXCEPT !.pc = "raised", !.exc = "TTLibError"]
             /\ UNCHANGED <<target_font_cache, custom_encoding_maps>>
        ELSE IF ~cached /\ run.files[fname] = "missing"
        THEN /\ run' = next
             /\ UNCHANGED <<target_font_cache, custom_encoding_maps>>
        ELSE \E r \in {RegisterRequiredCharacters(
                          [i \in 1..Len(rule.encoding_map) |-> rule.encoding_map[i].v],
                          IF DictHas(custom_encoding_maps, fname)
                          THEN DictGet(custom_encoding_maps, fname)
                          ELSE EmptyDict)} :
             /\ target_font_cache' = target_font_cache \cup {fname}
             /\ custom_encoding_maps' = DictSet(custom_encoding_maps, fname, r.m)
             /\ run' = IF r.raised
                       THEN [run EXCEPT !.pc = "raised", !.exc = "TypeError",
                                        !.loads[fname] = @ + (IF cached THEN 0 ELSE 1)]
                       ELSE [next EXCEPT !.loads[fname] = @ + (IF cached THEN 0 ELSE 1)]
  /\ UNCHANGED <<tt, fd, config, source_font_cache, source_pikepdf_fonts, eng, sel, tz, last>>

\* Mutant of the slot assignment: the characters are taken in the order
\* they were registered
AssignSlots_Unsorted(m) == [i \in 1..Len(m) |-> Item(m[i].k, PyInt(127 + i))]

\* the slots _embed_required_fonts assigns: 128 upward over sorted(chars)
AssignSlots(m) ==
  [i \in 1..Len(m) |->
     Item(m[i].k,
          PyInt(128 + Cardinality({j \in 1..Len(m) : m[j].k.v[1] < m[i].k.v[1]})))]

\* "fname not in embedded_objects" never holds
AlreadyEmbedded_Never(r, fname) == FALSE

\* the negation of "fname not in embedded_objects"
AlreadyEmbedded(r, fname) == r.embedded[fname] > 0

\* one iteration of the loop of _embed_required_fonts
EmbedRule ==
  /\ run.pc = "embed"
  /\ LET fname == config[run.i].target_font_file
         next == [run EXCEPT !.pc = IF run.i = Len(config) THEN "pages" ELSE "embed",
                             !.i = IF run.i = Len(config) THEN 1 ELSE run.i + 1]
     IN IF AlreadyEmbedded(run, fname)
        THEN run' = next /\ UNCHANGED custom_encoding_maps
        ELSE IF ~DictHas(custom_encoding_maps, fname)
        THEN /\ run' = [run EXCEPT !.pc = "raised", !.exc = "KeyError"]
             /\ UNCHANGED custom_encoding_maps
        ELSE /\ custom_encoding_maps' =
                  DictSet(custom_encoding_maps, fname,
                          AssignSlots(DictGet(custom_encoding_maps, fname)))
             /\ run' = IF run.files[fname] = "missing"
                       THEN [run EXCEPT !.pc = "raised", !.exc = "FileNotFoundError",
                                        !.assigned[fname] = @ + 1]
                       ELSE IF run.files[fname] = "unparsable"
                       THEN [run EXCEPT !.pc = "raised", !.exc = "TTLibError",
                                        !.assigned[fname] = @ + 1]
                       ELSE [next EXCEPT !.assigned[fname] = @ + 1,
                                         !.embedded[fname] = @ + 1]
  /\ UNCHANGED <<tt, fd, config, target_font_cache, source_font_cache,
                 source_pikepdf_fonts, eng, sel, tz, last>>

\* Mutant of the page loop: one engine serves all the pages
BeginPage_KeepEngine ==
  /\ run.pc = "pages" /\ ~run.in_page /\ run.i <= MaxPages
  /\ run' = [run EXCEPT !.in_page = TRUE, !.visited = Append(@, run.i)]
  /\ source_pikepdf_fonts' = << PageFont(F1, TRUE, <<1000, 600>>, 65, 66, 1000, 0) >>
  /\ last' = NoLast
  /\ UNCHANGED <<tt, fd, config, custom_encoding_maps, target_font_cache,
                 source_font_cache, eng, sel, tz>>

\* the loop over pdf.pages reaches page run.i: its fonts are extracted and
\* _process_single_page makes a new LayoutEngine
BeginPage ==
  /\ run.pc = "pages" /\ ~run.in_page /\ run.i <= MaxPages
  /\ run' = [run EXCEPT !.in_page = TRUE, !.visited = Append(@, run.i)]
  /\ source_pikepdf_fonts' = << PageFont(F1, TRUE, <<1000, 600>>, 65, 66, 1000, 0) >>
  /\ eng' = [eng EXCEPT ![1] = NewEngine]
  /\ sel' = [sel EXCEPT ![1] = NoSel]
  /\ tz' = [src |-> RatInt(100), out |-> RatInt(100)]
  /\ last' = NoLast
  /\ UNCHANGED <<tt, fd, config, custom_encoding_maps, target_font_cache, source_font_cache>>

\* operators of the page's content stream reaching the handlers
PageSelectFont ==
  /\ run.pc = "pages" /\ run.in_page
  /\ \E name \in {F1, F2, Arial} : SetActiveFont(1, name, 10000)

PageShow ==
  /\ run.pc = "pages" /\ run.in_page
  /\ HandleTextShow("Tj", <<StrItem(<<12>>)>>, 10000,
                    [tm |-> <<1000, 0, 0, 1000, 72000, 700000>>, ctm_d |-> 1000])

\* the page loop without its except clause: a PdfError ends the run
AfterPage_Abort(r, outcome) ==
  IF outcome = "ok"
  THEN [r EXCEPT !.in_page = FALSE, !.i = @ + 1, !.updated = @ \cup {r.i}]
  ELSE [r EXCEPT !.pc = "raised", !.exc = outcome]

\* the end of one iteration of the page loop: after a page without error
\* _update_page_resources has run; a PdfError is logged and the loop goes
\* on; any other exception leaves process_pdf
AfterPage(r, outcome) ==
  IF outcome = "ok"
  THEN [r EXCEPT !.in_page = FALSE, !.i = @ + 1, !.updated = @ \cup {r.i}]
  ELSE IF outcome = "PdfError"
  THEN [r EXCEPT !.in_page = FALSE, !.i = @ + 1, !.errors = Append(@, r.i)]
  ELSE [r EXCEPT !.pc = "raised", !.exc = outcome]

\* _process_single_page returns or raises
EndPage ==
  /\ run.pc = "pages" /\ run.in_page
  /\ \E outcome \in {"ok", "PdfError", "TypeError"} :
       run' = [AfterPage(run, outcome) EXCEPT !.left_active = eng[1].active_rule # 0]
  /\ UNCHANGED <<tt, fd, config, custom_encoding_maps, target_font_cache,
                 source_font_cache, source_pikepdf_fonts, eng, sel, tz, last>>

\* pdf.save(output_path)
Save ==
  /\ run.pc = "pages" /\ ~run.in_page /\ run.i > MaxPages
  /\ run' = [run EXCEPT !.pc = "saved"]
  /\ UNCHANGED <<tt, fd, config, custom_encoding_maps, target_font_cache,
                 source_font_cache, source_pikepdf_fonts, eng, sel, tz, last>>

NextPipeline ==
  \/ Inspect \/ LoadRule \/ EmbedRule \/ BeginPage \/ PageSelectFont
  \/ PageShow \/ EndPage \/ Save

SpecPipeline == InitPipeline /\ [][NextPipeline]_vars

(***************************************************************************)
(* FontData (models.py): the source record built from a font dictionary.   *)
(* Operands are numbers or names; lengths are in glyph-space units.        *)
(***************************************************************************)
PdfNum(n) == [t |-> "num", n |-> n]
PdfName == [t |-> "name", n |-> 0]
\* float(x) succeeds on a number and raises TypeError on a name
FloatOk(x) == x.t = "num"
Nums(ns) == [i \in 1..Len(ns) |-> PdfNum(ns[i])]

\* A glyph program: what parse_content_stream does with it (returns the
\* instructions or raises) and its instructions
CharProc(parse, operator, operands) ==
  [parse |-> parse,
   instructions |-> <<[operator |-> operator, operands |-> operands]>>]

CharProcs ==
  { CharProc("ok", "d1", Nums(<<100, 0>>)),
    CharProc("ok", "d1", <<PdfNum(100), PdfNum(0), PdfName, PdfNum(100), PdfNum(200)>>),
    CharProc("ok", "d1", <<PdfNum(100), PdfNum(0), PdfName, PdfNum(0), PdfNum(100),
                           PdfNum(200)>>),
    CharProc("PdfError", "", <<>>),
    CharProc("ok", "d0", Nums(<<100, 0>>)),
    CharProc("ok", "d1", Nums(<<1000, 0, 0, -200, 1000, 800>>)),
    CharProc("ok", "d1", Nums(<<500, 0, 0, 0, 500, 700>>)) }

\* The font dictionaries: /Subtype, /FontBBox (absent, good, with a name,
\* too short) and /CharProcs (absent, or up to MaxGlyphs glyph programs)
FontDicts ==
  LET FontBBoxes ==
        { [has |-> FALSE, v |-> <<>>],
          [has |-> TRUE, v |-> Nums(<<0, 0, 1000, 800>>)],
          [has |-> TRUE, v |-> <<PdfNum(1), PdfNum(2), PdfNum(3), PdfName>>],
          [has |-> TRUE, v |-> Nums(<<0, 0, 1000>>)] }
      CharProcLists == UNION {[1..n -> CharProcs] : n \in 0..MaxGlyphs}
  IN { [subtype |-> st, bbox |-> b.v, has_bbox |-> b.has,
        has_charprocs |-> TRUE, charprocs |-> cp] :
         st \in {"/Type3", "/Type1"}, b \in FontBBoxes, cp \in CharProcLists }
     \cup
     { [subtype |-> st, bbox |-> b.v, has_bbox |-> b.has,
        has_charprocs |-> FALSE, charprocs |-> <<>>] :
         st \in {"/Type3", "/Type1"}, b \in FontBBoxes }

\* FontData._extract_initial_bbox: the design height it leaves
ExtractInitialBBox(font_dict, height) ==
  IF font_dict.has_bbox /\ Len(font_dict.bbox) = 4
  THEN IF FloatOk(font_dict.bbox[4]) /\ FloatOk(font_dict.bbox[2])
       THEN font_dict.bbox[4].n - font_dict.bbox[2].n
       ELSE height
  ELSE height

\* FontData._update_bounds_from_operands; while valid_samples is 0 the
\* bounds are the infinities, so the first sample sets them
UpdateBoundsFromOperands(operands, bounds) ==
  IF Len(operands) < 6 THEN bounds
  ELSE IF \E i \in 3..6 : ~FloatOk(operands[i]) THEN bounds
  ELSE LET llx == operands[3].n
           lly == operands[4].n
           urx == operands[5].n
           ury == operands[6].n
           first == bounds.valid_samples = 0
           Min(a, b) == IF a < b THEN a ELSE b
           Max(a, b) == IF a > b THEN a ELSE b
       IN [min_llx |-> IF first THEN llx ELSE Min(bounds.min_llx, llx),
           max_urx |-> IF first THEN urx ELSE Max(bounds.max_urx, urx),
           min_lly |-> IF first THEN lly ELSE Min(bounds.min_lly, lly),
           max_ury |-> IF first THEN ury ELSE Max(bounds.max_ury, ury),
           valid_samples |-> bounds.valid_samples + 1]

\* FontData._process_charproc_sample: the bounds it leaves and the
\* exception that leaves it ("" when none)
ProcessCharprocSample(stream_obj, bounds) ==
  IF stream_obj.parse # "ok"
  THEN [bounds |-> bounds,
        exc |-> IF stream_obj.parse \in {"PdfError", "RuntimeError"} THEN ""
                ELSE stream_obj.parse]
  ELSE LET ins == stream_obj.instructions
           d1 == {i \in 1..Len(ins) : ins[i].operator = "d1"}
       IN [bounds |-> IF d1 = {} THEN bounds
                      ELSE UpdateBoundsFromOperands(
                             ins[CHOOSE i \in d1 : \A j \in d1 : i <= j].operands,
                             bounds),
           exc |-> ""]

\* the loop of _extract_type3_metrics over the glyph programs
RECURSIVE ScanCharProcs(_, _)
ScanCharProcs(char_procs, acc) ==
  IF Len(char_procs) = 0 \/ acc.exc # "" THEN acc
  ELSE ScanCharProcs(Tail(char_procs),
                     ProcessCharprocSample(Head(char_procs), acc.bounds))

\* FontData.__init__ on a font dictionary
FontDataInit(font_dict) ==
  LET is_type3 == font_dict.subtype = "/Type3"
      height0 == IF is_type3 THEN ExtractInitialBBox(font_dict, 0) ELSE 0
      none == [bounds |-> [min_llx |-> 0, max_urx |-> 0, min_lly |-> 0,
                           max_ury |-> 0, valid_samples |-> 0],
               exc |-> ""]
      scan == IF is_type3 /\ font_dict.has_charprocs /\ Len(font_dict.charprocs) > 0
              THEN ScanCharProcs(font_dict.charprocs, none)
              ELSE none
      b == scan.bounds
      measured == scan.exc = "" /\ b.valid_samples > 0 /\ b.max_ury > b.min_lly
  IN [pc |-> "done", font_dict |-> font_dict, is_type3 |-> is_type3,
      valid_samples |-> b.valid_samples, raised |-> scan.exc # "",
      type3_design_height |-> IF measured THEN b.max_ury - b.min_lly ELSE height0,
      type3_design_width |-> IF measured THEN b.max_urx - b.min_llx ELSE 0]

InitFontData ==
  /\ config = <<>>
  /\ custom_encoding_maps = <<>>
  /\ target_font_cache = {}
  /\ source_font_cache = <<>>
  /\ source_pikepdf_fonts = <<>>
  /\ tz = [src |-> RatInt(100), out |-> RatInt(100)]
  /\ eng = [i \in Engines |-> NewEngine]
  /\ sel = [i \in Engines |-> NoSel]
  /\ last = NoLast
  /\ run = NoRun
  /\ fd \in {[NoFontData EXCEPT !.pc = "dict", !.font_dict = d] : d \in FontDicts}
  /\ tt = NoFont

\* FontData(source_name, font_dict)
NewFontData ==
  /\ fd.pc = "dict"
  /\ fd' = FontDataInit(fd.font_dict)
  /\ UNCHANGED <<tt, config, custom_encoding_maps, target_font_cache,
                 source_font_cache, source_pikepdf_fonts, run, eng, sel, tz, last>>


SpecFontData == InitFontData /\ [][NewFontData]_vars

(***************************************************************************)
(* Two engines over the same configuration and caches, each serving its    *)
(* own sequence of font selections and text operations                     *)
(***************************************************************************)

PairSelectFont ==
  \E i \in Engines, name \in {F1, F3, T3a, T3b, Arial}, size \in FontSizes :
     SetActiveFont(i, name, size)
PairRewrite ==
  \E i \in Engines, items \in {<<StrItem(bs)>> : bs \in ByteStrings(1)} :
     RewriteText(i, "Tj", items)

NextPair == PairSelectFont \/ PairRewrite

SpecPair == Init /\ [][NextPair]_vars

(***************************************************************************)
(* _initialize_encoding_maps over a range of file-level and rule maps: one *)
(* engine, a rule /F1 that carries the rule map and a rule /F2 without     *)
(* one, both for the same target file                                      *)
(***************************************************************************)
InitMaps ==
  LET \* "A", "b", "7", "0x41", the ligature a Unicode name resolved to,
      \* and the name "ff" that the lookup left as it was
      Keys == {PyStr(<<65>>), PyStr(<<98>>), PyStr(<<55>>),
               PyStr(<<48, 120, 52, 49>>), PyStr(<<64257>>), PyStr(<<102, 102>>)}
      Values == {PyInt(10), PyInt(200)}
      Items == {Item(k, v) : k \in Keys, v \in Values}
      RuleMaps == {<<>>} \cup {<<it1>> : it1 \in Items}
                    \cup {pr \in Items \X Items : pr[1].k # pr[2].k}
      FileMaps ==
        { <<>>,
          <<Item("T.ttf", <<Item(PyStr(<<65>>), PyInt(5)),
                            Item(PyInt(201), PyStr(<<98>>))>>)>>,
          <<Item("T.ttf", <<Item(PyInt(6), PyStr(<<64257>>)),
                            Item(PyStr(<<64257>>), PyInt(7))>>)>>,
          <<Item("T.ttf", <<Item(PyInt(1), PyInt(2)),
                            Item(PyInt(55), PyStr(<<55>>))>>)>> }
  IN /\ config \in
          { << ReplacementRule(F1, "T.ttf", <<"/", "N", "1">>, emap,
                  FALSE, StrategyOptions, 100000),
               ReplacementRule(F2, "T.ttf", <<"N", "2">>, EmptyDict,
                  FALSE, StrategyOptions, 100000) >> : emap \in RuleMaps }
     /\ custom_encoding_maps \in FileMaps
     /\ target_font_cache = {"T.ttf"}
     /\ source_font_cache = <<>>
     /\ source_pikepdf_fonts = <<>>
     /\ tz = [src |-> RatInt(100), out |-> RatInt(100)]
     /\ eng = [i \in Engines |-> NewEngine]
     /\ sel = [i \in Engines |-> NoSel]
     /\ last = NoLast
     /\ run = NoRun
     /\ fd = NoFontData
     /\ tt = NoFont

\* Mutant of the operand test: no operand list is accepted
WellFormedTf_Never(operands) == FALSE

\* the try block of handle_set_font: two operands, the second one a number
WellFormedTf(operands) == Len(operands) = 2 /\ operands[2].t = "num"

\* handle_set_font on a Tf operator of the content stream, whatever its
\* operands
HandleSetFont ==
  LET Name(n) == [t |-> "name", v |-> n]
      Num(x) == [t |-> "num", v |-> x]
      Operands ==
        { <<Name(n), Num(10000)>> : n \in {F1, F2, Arial} }
          \cup { <<>>, <<Name(F1)>>, <<Name(F2), Num(10000), Num(12000)>>,
                 <<Name(F2), Name(F1)>>, <<Num(10000), Name(F2)>>,
                 <<Name(F2), [t |-> "str", v |-> <<49, 48>>]>> }
  IN \E operands \in Operands :
       IF WellFormedTf(operands)
       THEN SetActiveFont(1, operands[1].v, operands[2].v)
       ELSE /\ last' = [NoLast EXCEPT !.kind = "TfRaw", !.e = 1,
                          !.items = operands,
                          !.ops = << [op |-> "Tf", num |-> <<>>,
                                      items |-> operands] >>]
            /\ UNCHANGED <<tt, fd, config, custom_encoding_maps, target_font_cache,
                           source_font_cache, source_pikepdf_fonts, run, eng,
                           sel, tz>>

\* engine.calculate_target_visual_width(op, operands) on rewritten operands
MapsTargetWidth ==
  \E o \in { [op |-> "Tj", items |-> <<StrItem(<<10>>)>>],
              [op |-> "Tj", items |-> <<StrItem(<<200, 65>>)>>],
              [op |-> "Tj", items |-> <<StrItem(<<5, 12>>)>>],
              [op |-> "TJ", items |-> <<StrItem(<<10, 66>>), NumItem(50),
                                        StrItem(<<201>>)>>] } :
     \E r \in {CalculateTargetVisualWidth(eng[1], o.op, o.items)} :
        /\ last' = [NoLast EXCEPT !.kind = "width", !.e = 1, !.op = o.op,
                      !.items = o.items, !.raised = r.raised,
                      !.calc.target_width = r.w]
        /\ UNCHANGED <<tt, fd, config, custom_encoding_maps, target_font_cache,
                       source_font_cache, source_pikepdf_fonts, run, eng, sel, tz>>

NextMaps == HandleSetFont \/ MapsTargetWidth

SpecMaps == InitMaps /\ [][NextMaps]_vars

(***************************************************************************)
(* embed_truetype_font (font_embedding.py): the /Widths array of the       *)
(* embedded font, from the font file and the slot map of the file          *)
(***************************************************************************)
\* _get_glyph_width
GetGlyphWidth(font, gname) ==
  IF DictHas(font.hmtx, gname)
  THEN (DictGet(font.hmtx, gname) * 1000) \div font.units_per_em
  ELSE 0

\* _calculate_slot_width
CalculateSlotWidth(i, custom_map, font, default_width) ==
  LET width == IF Len(custom_map) > 0 /\ DictHas(custom_map, i)
               THEN LET char_str == DictGet(custom_map, i)
                    IN IF Len(char_str) = 1
                       THEN IF DictHas(font.cmap, char_str[1])
                            THEN GetGlyphWidth(font, DictGet(font.cmap, char_str[1]))
                            ELSE default_width
                       ELSE default_width
               ELSE 0
  IN IF width = 0
     THEN IF DictHas(font.cmap, i) THEN GetGlyphWidth(font, DictGet(font.cmap, i))
          ELSE default_width
     ELSE width

\* _widths_array
WidthsArray(font, custom_map) ==
  LET notdef == GetGlyphWidth(font, ".notdef")
      default_width == IF notdef # 0 THEN notdef ELSE 600
  IN [n \in 1..256 |-> CalculateSlotWidth(n - 1, custom_map, font, default_width)]

\* The font files: .notdef of advance 0 or 500, "A" of advance 0 or 700, a
\* combining accent of advance 0 and a glyph for code point 200, at 1000 or
\* 2000 units per em; the slot maps give each of the slots 65, 128 and 200
\* no character, "A", the accent, "Z" (no glyph) or the two characters "fi"
InitWidths ==
  /\ config = <<>>
  /\ custom_encoding_maps = <<>>
  /\ target_font_cache = {}
  /\ source_font_cache = <<>>
  /\ source_pikepdf_fonts = <<>>
  /\ tz = [src |-> RatInt(100), out |-> RatInt(100)]
  /\ eng = [i \in Engines |-> NewEngine]
  /\ sel = [i \in Engines |-> NoSel]
  /\ last = NoLast
  /\ run = NoRun
  /\ fd = NoFontData
  /\ \E upem \in {1000, 2000}, notdef \in {0, 500}, a \in {0, 700},
        c65, c128, c200 \in {<<>>, <<65>>, <<769>>, <<90>>, <<102, 105>>} :
       tt = [pc |-> "file", units_per_em |-> upem,
             cmap |-> <<Item(65, "A"), Item(769, "acutecomb"), Item(200, "Egrave")>>,
             hmtx |-> <<Item(".notdef", notdef), Item("A", a),
                        Item("acutecomb", 0), Item("Egrave", 650)>>,
             custom_map |->
               (IF c65 = <<>> THEN <<>> ELSE <<Item(65, c65)>>)
                 \o (IF c128 = <<>> THEN <<>> ELSE <<Item(128, c128)>>)
                 \o (IF c200 = <<>> THEN <<>> ELSE <<Item(200, c200)>>),
             widths |-> <<>>]

\* embed_truetype_font(pdf, font_path, custom_encoding_map): the /Widths of
\* the font object it returns
EmbedTruetypeFont ==
  /\ tt.pc = "file"
  /\ tt' = [tt EXCEPT !.pc = "embedded", !.widths = WidthsArray(tt, tt.custom_map)]
  /\ UNCHANGED <<fd, config, custom_encoding_maps, target_font_cache,
                 source_font_cache, source_pikepdf_fonts, run, eng, sel, tz, last>>

SpecWidths == InitWidths /\ [][EmbedTruetypeFont]_vars

(***************************************************************************)
(* Claims                                                                  *)
(***************************************************************************)

\* C1: rewrite_text_operands never raises and preserves structure: the
\* result has as many items as the operand, every number of a TJ array is
\* returned unchanged at its position, and every string of N bytes is
\* returned as a string of N bytes.
C1_StructurePreserved ==
  last.kind = "rewrite" =>
    /\ ~last.raised
    /\ Len(last.out) = Len(last.items)
    /\ \A i \in 1..Len(last.items) :
         IF IsNum(last.items[i]) THEN last.out[i] = last.items[i]
         ELSE /\ last.out[i].t = "str"
              /\ Len(last.out[i].v) = Len(last.items[i].v)

\* C2: with a rule active every source byte b is rewritten independently:
\* c is the source-byte table's entry for b if there is one, else chr(b);
\* the output byte is char-to-slot[c] if c is a key of the char-to-slot
\* table, else b.  With the map {"A": 10}, "A" becomes 0x0A and "B" stays
\* 0x42.
C2_ByteRule ==
  (last.kind = "rewrite" /\ eng[last.e].active_rule # 0) =>
    LET e == eng[last.e]
        c(b) == IF DictHas(e.active_source_hex_map, PyInt(b))
                THEN DictGet(e.active_source_hex_map, PyInt(b))
                ELSE PyStr(<<b>>)
        want(b) == IF e.active_target_slot_map.t = "dict"
                      /\ DictHas(e.active_target_slot_map.d, c(b))
                   THEN DictGet(e.active_target_slot_map.d, c(b))
                   ELSE PyInt(b)
    IN /\ ~last.raised
       /\ \A i \in 1..Len(last.items) :
            ~IsNum(last.items[i]) =>
               \A j \in 1..Len(last.items[i].v) :
                  PyInt(last.out[i].v[j]) = want(last.items[i].v[j])
       /\ e.active_rule = 1 =>
            /\ last.items = <<StrItem(<<65>>)>> => last.out = <<StrItem(<<10>>)>>
            /\ last.items = <<StrItem(<<66>>)>> => last.out = <<StrItem(<<66>>)>>

\* C3: whenever the most recently selected font is not a draw-program font
\* with a matching rule, the draw-program scale factor is exactly 1.0, and
\* the size returned for it is the requested size times the rule's manual
\* percentage only, whatever factor an earlier selection had set.
C3_FactorReset ==
  \A i \in Engines :
    sel[i].some =>
      LET clean == StripSlashes(sel[i].name)
          r == FindRule(config, clean)
          sd == SourceData(WithSlash(clean))
          pct == IF r = 0 THEN 100000 ELSE config[r].fontsize_scaling_percentage
      IN ~(r # 0 /\ sd.found /\ sd.is_type3) =>
           /\ eng[i].current_type3_scale_factor = 1000
           /\ (last.kind = "Tf" /\ last.e = i) =>
                 last.ret_size * 1000 = last.size * (pct \div 100)

\* C3 witness: a font that is not a draw-program font was selected on an
\* engine whose previous font had set a factor other than 1.0
C3_Witness ==
  /\ last.kind = "Tf"
  /\ last.prev_factor # 1000
  /\ eng[last.e].active_rule # 0
  /\ eng[last.e].current_type3_scale_factor = 1000
  /\ ~SourceData(WithSlash(StripSlashes(last.name))).is_type3

\* C4: two engines over the same configuration and caches whose most recent
\* set_active_font calls had the same arguments hold identical active
\* state, whatever each of them served before.
C4_HistoryIndependent ==
  (/\ sel[1].some /\ sel[2].some
   /\ sel[1].name = sel[2].name /\ sel[1].size = sel[2].size)
  => eng[1] = eng[2]

\* C4 witness: the same final selection of a font with a rule, reached by
\* one engine as its first call and by the other after a draw-program font
C4_Witness ==
  /\ sel[1].some /\ sel[2].some
  /\ sel[1].name = sel[2].name /\ sel[1].size = sel[2].size
  /\ sel[1].first # sel[2].first
  /\ last.kind = "Tf" /\ last.prev_factor # 1000
  /\ eng[1].active_rule # 0
  /\ Len(eng[1].active_source_hex_map) > 0

\* C5 (as claimed): selecting a font that matches no rule returns the
\* original name and the requested size unchanged and leaves no active
\* rule, metrics, tables or factor.
C5_NoRuleOriginalName ==
  (last.kind = "Tf" /\ eng[last.e].active_rule = 0) =>
    /\ last.ret_name = last.name
    /\ last.ret_size = last.size
    /\ eng[last.e].active_wrapper = "None"
    /\ eng[last.e].active_target_slot_map = NoDict
    /\ eng[last.e].active_target_char_map = NoDict
    /\ eng[last.e].active_source_hex_map = EmptyDict
    /\ eng[last.e].current_type3_scale_factor = 1000

\* C5 (amended): selecting a font that matches no rule returns the name
\* without its "/" characters and the requested size unchanged and leaves
\* no active rule, metrics, tables or factor.
C5_NoRuleClears ==
  (last.kind = "Tf"
     /\ \A k \in 1..Len(config) :
          SelectSeq(config[k].source_font_name, LAMBDA ch : ch # "/")
            # SelectSeq(last.name, LAMBDA ch : ch # "/")) =>
    /\ last.ret_name = SelectSeq(last.name, LAMBDA ch : ch # "/")
    /\ last.ret_size = last.size
    /\ eng[last.e].active_rule = 0
    /\ eng[last.e].active_wrapper = "None"
    /\ eng[last.e].active_target_slot_map = NoDict
    /\ eng[last.e].active_target_char_map = NoDict
    /\ eng[last.e].active_source_hex_map = EmptyDict
    /\ eng[last.e].current_type3_scale_factor = 1000

\* C5 witness: a font without a rule selected right after a draw-program
\* font whose rule was active
C5_Witness ==
  /\ last.kind = "Tf"
  /\ eng[last.e].active_rule = 0
  /\ last.prev_factor # 1000
  /\ last.ret_name # last.name

\* C6: the operators emitted around a rewritten text operator leak nothing:
\* whatever horizontal scaling and text matrix were in force before them,
\* the scaling and the text matrix in force after them are the ones the
\* original text operator alone would leave.
C6_NoLeak ==
  (last.kind = "show" /\ ~last.raised /\ ~last.passed
     /\ last.hs_before = tz.src) =>
    /\ tz.out = tz.src
    /\ last.tm_after = last.tm_expected

\* C7: the emitted sequence is [Tm apply]? [Tz s]? text [Tz 100]? [Tm
\* restore]?: one text-showing operator, the input's; the Tz pair iff
\* |s - 100| > 1; the Tm pair iff flip correction applies; each pair whole;
\* the Tm pair around the Tz pair.
C7_EmittedShape ==
  (last.kind = "show" /\ ~last.raised /\ ~last.passed) =>
    LET ops == last.ops
        s == last.calc.scale_percent
        scaled == RatLt(RatInt(1), RatAbs(RatSub(s, RatInt(100))))
        flip == GetType3MatrixOps(last.output_state, eng[1]).inv
        k == 1 + (IF flip THEN 1 ELSE 0) + (IF scaled THEN 1 ELSE 0)
    IN /\ Len(ops) = 2 * k - 1
       /\ ops[k].op = last.op
       /\ \A i \in 1..Len(ops) : i # k => ops[i].op \in {"Tm", "Tz"}
       /\ IF scaled
          THEN ops[k - 1] = TzOp(RatRound3(s)) /\ ops[k + 1] = TzOp(RatInt(100))
          ELSE \A i \in 1..Len(ops) : ops[i].op # "Tz"
       /\ IF flip
          THEN ops[1].op = "Tm" /\ ops[Len(ops)].op = "Tm"
          ELSE \A i \in 1..Len(ops) : ops[i].op # "Tm"

\* a text operator emitted inside both pairs
C7_Witness ==
  /\ last.kind = "show" /\ ~last.raised /\ ~last.passed
  /\ Len(last.ops) = 5
  /\ last.ops[1].op = "Tm" /\ last.ops[2].op = "Tz" /\ last.ops[3].op = last.op

\* C8: the flip-correction pair is emitted exactly when the active source
\* font is a Type 3 font and the text rendering matrix has a negative
\* vertical scale, whatever the font's design height (1.0 and 0 included);
\* apply is the current text matrix with its vertical scale made positive,
\* restore is the current text matrix.
C8_FlipPair ==
  (last.kind = "show" /\ ~last.raised /\ ~last.passed) =>
    LET ops == last.ops
        tm == last.output_state.tm
        is_type3 == SourceData(WithSlash(StripSlashes(sel[1].name))).is_type3
        flipped == TrmVerticalScale(last.output_state) < 0
        pair == \E i \in 1..Len(ops) : ops[i].op = "Tm"
    IN /\ pair <=> (is_type3 /\ flipped)
       /\ pair => /\ ops[1] = TmOp([tm EXCEPT ![4] = Abs(@)])
                  /\ ops[Len(ops)] = TmOp(tm)

\* C9: calculate_scale_percent returns clamp(100 * source_width /
\* target_width, min, max) when both widths exceed 0.001 and exactly 100
\* otherwise; widths 10.0 and 5.0 with min 1 and max 1000 give exactly 200.
C9_ScalePercent ==
  (last.kind = "show" /\ ~last.raised /\ ~last.passed) =>
    LET opts == config[eng[1].active_rule].strategy_options
        lo == IF opts.has_min THEN opts.min_scale ELSE 50000
        hi == IF opts.has_max THEN opts.max_scale ELSE 200000
        iw == last.calc.input_width
        tw == last.calc.target_width
        raw == Rat(100 * iw, tw)
        clamp == IF RatLt(raw, Rat(lo, 1000)) THEN Rat(lo, 1000)
                 ELSE IF RatLt(Rat(hi, 1000), raw) THEN Rat(hi, 1000)
                 ELSE raw
    IN (0 < lo /\ lo < hi) =>
         /\ last.calc.scale_percent =
              IF iw > 1 /\ tw > 1 THEN clamp ELSE RatInt(100)
         /\ (iw = 10000 /\ tw = 5000 /\ lo = 1000 /\ hi = 1000000) =>
              last.calc.scale_percent = RatInt(200)

\* widths 10.0 and 5.0 under the bounds 1 and 1000
C9_Witness ==
  /\ last.kind = "show" /\ ~last.raised /\ ~last.passed
  /\ config[eng[1].active_rule].strategy_options = StrategyObj(1000, 1000000)
  /\ last.calc.input_width = 10000 /\ last.calc.target_width = 5000
  /\ last.calc.scale_percent = RatInt(200)

\* C10: the clamp bounds are [50, 200] unless the rule's strategy options
\* override them: under a rule that specifies no strategy options, source
\* width 10.0pt and target width 5.0pt give Tz 200 immediately before the
\* text operator and Tz 100 immediately after it.
C10_DefaultBounds ==
  (last.kind = "show" /\ ~last.raised /\ ~last.passed
     /\ ~config[eng[1].active_rule].opts_given
     /\ last.calc.input_width = 10000 /\ last.calc.target_width = 5000) =>
    \E k \in 2..(Len(last.ops) - 1) :
       /\ last.ops[k].op = last.op
       /\ last.ops[k - 1] = TzOp(RatInt(200))
       /\ last.ops[k + 1] = TzOp(RatInt(100))

\* C11: malformed clamp overrides are ignored: the lower bound is the
\* user's if that is > 0, else 50; the upper bound is the user's if that is
\* greater than the lower bound in force, else 200; so lower <= upper, and
\* a clamped result lies in [lower, upper] (e.g. min -5 with max 10, min 300
\* with max 200).
C11_MalformedIgnored ==
  (last.kind = "show" /\ ~last.raised /\ ~last.passed
     /\ last.calc.input_width > 1 /\ last.calc.target_width > 1) =>
    LET opts == config[eng[1].active_rule].strategy_options
        lower == IF opts.has_min /\ opts.min_scale > 0 THEN opts.min_scale
                 ELSE 50000
        upper == IF opts.has_max /\ opts.max_scale > lower THEN opts.max_scale
                 ELSE 200000
        c == last.calc
    IN /\ c.limit_min = lower /\ c.limit_max = upper
       /\ c.limit_min <= c.limit_max
       /\ ~RatLt(c.scale_percent, Rat(c.limit_min, 1000))
       /\ ~RatLt(Rat(c.limit_max, 1000), c.scale_percent)

\* C12: after set_active_font selects a matching rule the char-to-slot and
\* slot-to-char tables are exact inverses: slot-to-char[char-to-slot[c]] = c
\* for every key c, and char-to-slot[slot-to-char[s]] = s for every key s,
\* also when two rule entries carry the same value.
C12_ExactInverses ==
  (last.kind = "Tf" /\ eng[last.e].active_rule # 0) =>
    LET slot_map == eng[last.e].active_target_slot_map.d
        char_map == eng[last.e].active_target_char_map.d
    IN /\ \A i \in 1..Len(slot_map) :
            /\ DictHas(char_map, slot_map[i].v)
            /\ DictGet(char_map, slot_map[i].v) = slot_map[i].k
       /\ \A i \in 1..Len(char_map) :
            /\ DictHas(slot_map, char_map[i].v)
            /\ DictGet(slot_map, char_map[i].v) = char_map[i].k

\* C13: every hex-string spelling of a code point n used as a rule
\* encoding-map key (with or without 0x/0X, digits of either case) resolves
\* to the same entry: the integer lookup encoding_map[n] returns the entry's
\* character, and the engine's source-byte table maps byte n to it.
C13_HexSpellings ==
  LET entry == config[1].encoding_map[1]
      n == PyIntBase16(entry.k).n
  IN /\ (last.kind = "getitem" /\ last.key = PyInt(n)) =>
          last.found /\ last.value = entry.v
     /\ (last.kind = "Tf" /\ eng[1].active_rule = 1) =>
          /\ DictHas(eng[1].active_source_hex_map, PyInt(n))
          /\ DictGet(eng[1].active_source_hex_map, PyInt(n)) = entry.v

\* C14: every slot the embedding step has assigned to a required character
\* of a target font file lies in 0..255 and outside 0-31, 32-126 and 127,
\* that is in 128..255
C14_SlotsInRange ==
  \A f \in 1..Len(custom_encoding_maps) :
    run.assigned[custom_encoding_maps[f].k] > 0 =>
      \A j \in 1..Len(custom_encoding_maps[f].v) :
        LET slot == IntOf(custom_encoding_maps[f].v[j].v)
        IN 128 <= slot /\ slot <= 255

\* C15: when the replacement font file of a rule is missing or cannot be
\* parsed, process_pdf does not raise on account of that file
C15_FontFailureSkipped ==
  ~(\E f \in PipeFiles :
      /\ run.files[f] # "ok"
      /\ run.pc = "raised"
      /\ run.exc \in {"KeyError", "TTLibError", "FileNotFoundError"})

\* C16: whichever pages raise a PDF error, the pages are visited once each
\* in document order, a PDF error never ends the run, between two pages
\* every visited page is either recorded as failed or fully processed, and
\* the output is saved only after all the pages
C16_PageFailureIsolated ==
  /\ \A k \in 1..Len(run.visited) : run.visited[k] = k
  /\ \A k \in 1..Len(run.errors) :
        \A j \in 1..(k - 1) : run.errors[j] < run.errors[k]
  /\ run.pc = "raised" => run.exc # "PdfError"
  /\ (run.pc \in {"pages", "saved"} /\ ~run.in_page) =>
        /\ run.i = Len(run.visited) + 1
        /\ {run.errors[k] : k \in 1..Len(run.errors)} \cup run.updated
             = 1..Len(run.visited)
        /\ {run.errors[k] : k \in 1..Len(run.errors)} \cap run.updated = {}
  /\ run.pc = "saved" => Len(run.visited) = MaxPages

C16_Witness ==
  /\ run.pc = "saved"
  /\ run.errors = <<1>>
  /\ run.updated = 2..MaxPages

\* C18: every target font file is loaded, assigned slots and embedded at
\* most once, all of it before the first page; from the first page on no
\* step changes the target-metrics cache, the per-file encoding maps or the
\* source-metrics cache
C18_CachesFrozen ==
  /\ [](\A f \in PipeFiles :
          /\ run.loads[f] <= 1 /\ run.assigned[f] <= 1 /\ run.embedded[f] <= 1
          /\ run.loads[f] = 1 <=> f \in target_font_cache)
  /\ [][run.pc = "pages" =>
          /\ run'.loads = run.loads
          /\ run'.assigned = run.assigned
          /\ run'.embedded = run.embedded
          /\ UNCHANGED <<target_font_cache, custom_encoding_maps,
                         source_font_cache>>]_vars

C18_Witness ==
  /\ run.pc = "pages" /\ run.in_page
  /\ Len(run.visited) = 2
  /\ last.kind = "show" /\ ~last.passed
  /\ run.loads["T.ttf"] = 1 /\ run.embedded["T.ttf"] = 1
  /\ run.embedded["U.ttf"] = 1

\* C17: building the record of a draw-program font whose glyph programs are
\* all malformed does not raise and leaves the design height 0, whatever
\* else the font dictionary carries
C17_MalformedHeightZero ==
  (/\ fd.pc = "done" /\ fd.is_type3
   /\ Len(fd.font_dict.charprocs) > 0 /\ fd.valid_samples = 0) =>
     (~fd.raised /\ fd.type3_design_height = 0)

C20_FirstRuleLeadingMarker ==
  last.kind = "Tf" =>
    LET lead(n) == IF Len(n) > 0 /\ n[1] = "/" THEN Tail(n) ELSE n
        hits == {k \in 1..Len(config) :
                   lead(config[k].source_font_name) = lead(last.name)}
    IN eng[last.e].active_rule
         = IF hits = {} THEN 0 ELSE CHOOSE k \in hits : \A j \in hits : k <= j

\* C21: after every font selection that activates a rule, the active
\* char-to-slot table is the file-level map of the rule's target file
\* overlaid with the rule's encoding map: a key of the rule map has the
\* rule's value, any other key has the value of the last file-level entry
\* for it, where a file-level entry (slot: char) counts as (char: slot);
\* the table has no other key.
C21_TableIsOverlay ==
  (last.kind = "Tf" /\ eng[1].active_rule # 0) =>
    LET rule == config[eng[1].active_rule]
        emap == rule.encoding_map
        raw == IF DictHas(custom_encoding_maps, rule.target_font_file)
               THEN DictGet(custom_encoding_maps, rule.target_font_file)
               ELSE <<>>
        FileKey(i) == IF IsInt(raw[i].k) /\ IsStr(raw[i].v) THEN raw[i].v ELSE raw[i].k
        FileVal(i) == IF IsInt(raw[i].k) /\ IsStr(raw[i].v) THEN raw[i].k ELSE raw[i].v
        InRule(k) == \E i \in 1..Len(emap) : emap[i].k = k
        InFile(k) == \E i \in 1..Len(raw) : FileKey(i) = k
        Expected(k) ==
          IF InRule(k) THEN emap[CHOOSE i \in 1..Len(emap) : emap[i].k = k].v
          ELSE FileVal(CHOOSE i \in 1..Len(raw) :
                         /\ FileKey(i) = k
                         /\ \A j \in (i + 1)..Len(raw) : FileKey(j) # k)
        table == eng[1].active_target_slot_map
    IN /\ table.t = "dict"
       /\ \A n \in 1..Len(table.d) :
            /\ InRule(table.d[n].k) \/ InFile(table.d[n].k)
            /\ table.d[n].v = Expected(table.d[n].k)
            /\ \A m \in 1..Len(table.d) : table.d[m].k = table.d[n].k => m = n
       /\ \A i \in 1..Len(emap) : DictHas(table.d, emap[i].k)
       /\ \A i \in 1..Len(raw) : DictHas(table.d, FileKey(i))

\* A rule is active whose map gives a character a slot other than the one
\* a (slot: char) entry of the file-level map gives it, after another
\* font had been selected
C21_Witness ==
  /\ last.kind = "Tf" /\ eng[1].active_rule # 0 /\ ~sel[1].first
  /\ DictHas(custom_encoding_maps, config[eng[1].active_rule].target_font_file)
  /\ LET emap == config[eng[1].active_rule].encoding_map
         raw == DictGet(custom_encoding_maps,
                        config[eng[1].active_rule].target_font_file)
     IN \E i \in 1..Len(raw), j \in 1..Len(emap) :
           /\ IsInt(raw[i].k) /\ IsStr(raw[i].v)
           /\ emap[j].k = raw[i].v /\ emap[j].v # raw[i].k
           /\ DictGet(eng[1].active_target_slot_map.d, emap[j].k) = emap[j].v

\* C22: once a target font file has been assigned slots, its encoding map
\* has one entry for each required character of the file (the characters
\* outside 32..126 of the encoding-map values of the rules that use the
\* file) and no other entry; the slot of a required character is 128 plus
\* the number of required characters below it, so that the slots are
\* consecutive from 128 in ascending character order, no two characters
\* share a slot and the order of rules and entries plays no part.
C22_SlotsSortedInjective ==
  \A f \in 1..Len(custom_encoding_maps) :
    run.assigned[custom_encoding_maps[f].k] > 0 =>
      LET fname == custom_encoding_maps[f].k
          m == custom_encoding_maps[f].v
          Required ==
            UNION { UNION { {config[r].encoding_map[n].v.v[p] :
                               p \in 1..Len(config[r].encoding_map[n].v.v)} :
                            n \in {q \in 1..Len(config[r].encoding_map) :
                                     IsStr(config[r].encoding_map[q].v)} } :
                    r \in {q \in 1..Len(config) :
                             config[q].target_font_file = fname} }
              \ (32..126)
      IN /\ {m[j].k : j \in 1..Len(m)} = {PyStr(<<c>>) : c \in Required}
         /\ \A j \in 1..Len(m) :
              /\ m[j].v = PyInt(128 + Cardinality({c \in Required : c < m[j].k.v[1]}))
              /\ \A k \in 1..Len(m) : m[k].v = m[j].v => k = j

\* Slots were assigned to a file whose characters had been registered in
\* an order other than ascending, by two rules
C22_Witness ==
  /\ run.pc = "pages" /\ run.assigned["T.ttf"] = 1 /\ Len(config) = 2
  /\ LET m == DictGet(custom_encoding_maps, "T.ttf")
     IN /\ Len(m) = 4
        /\ \E i, j \in 1..Len(m) : i < j /\ m[i].k.v[1] > m[j].k.v[1]

\* C23: the source width a text-showing operator is scaled by is the
\* displacement of the text position whenever that is at least 0.001; when
\* it is below 0.001 and the selected page font declares widths, it is the
\* glyph-sum estimate (declared widths times FontMatrix[0] and the state
\* scale, minus the kerning times the state scale), replaced by half of
\* (em-width estimate x character count) when it is below a tenth of that.
C23_SourceWidth ==
  (last.kind = "show" /\ ~last.passed /\ ~last.raised) =>
    LET st == last.state
        metrics == GetSourceFontMetrics(eng[1])
        m == metrics.m
        scale == Abs((((st.fontsize * st.tm_x) \div 1000) * st.ctm_x) \div 1000)
        Width(b) == IF m.first_char <= b /\ b <= m.last_char
                       /\ b - m.first_char < Len(m.widths)
                    THEN m.widths[b - m.first_char + 1] ELSE m.missing_width
        Glyphs(i) == IF IsNum(last.items[i]) THEN 0
                     ELSE LET bs == last.items[i].v
                              sum[k \in 0..Len(bs)] ==
                                IF k = 0 THEN 0 ELSE sum[k - 1] + Width(bs[k])
                          IN sum[Len(bs)]
        Kern(i) == IF IsNum(last.items[i])
                   THEN last.items[i].v[1] \div last.items[i].v[2] ELSE 0
        Count(i) == IF IsNum(last.items[i]) THEN 0 ELSE Len(last.items[i].v)
        tot[i \in 0..Len(last.items)] ==
          IF i = 0 THEN [g |-> 0, k |-> 0, n |-> 0]
          ELSE [g |-> tot[i - 1].g + Glyphs(i), k |-> tot[i - 1].k + Kern(i),
                n |-> tot[i - 1].n + Count(i)]
        t == tot[Len(last.items)]
        estimate == (t.g * Abs((scale * m.font_matrix0) \div 1000)) \div 1000
                      - (t.k * scale) \div 1000
        em == (scale * eng[1].current_type3_scale_factor) \div 1000
    IN /\ st.displacement >= 1 => last.calc.input_width = st.displacement
       /\ (st.displacement < 1 /\ metrics.found) =>
            last.calc.input_width =
              IF 10 * estimate < em * t.n THEN (em * t.n) \div 2 ELSE estimate

\* C24: calculate_target_visual_width returns (does not raise) 1.0 when no
\* target metrics are active, and otherwise the sum over the bytes of the
\* strings of advance(c) / 1000 * active_font_size, c being
\* slot-to-char[byte] if the table has the byte, else chr(byte) for bytes
\* 32..126, else no character (the byte adds 0), minus
\* value / 1000 * active_font_size for every number.
C24_TargetWidth ==
  last.kind = "width" =>
    LET e == eng[1]
        table == IF e.active_target_char_map.t = "dict"
                 THEN e.active_target_char_map.d ELSE <<>>
        Advance(b) ==
          IF DictHas(table, PyInt(b)) THEN GetCharWidth(DictGet(table, PyInt(b))).w
          ELSE IF 32 <= b /\ b <= 126 THEN GetCharWidth(PyStr(<<b>>)).w
          ELSE 0
        Str1(bs) == LET sum[k \in 0..Len(bs)] ==
                          IF k = 0 THEN 0
                          ELSE sum[k - 1] + (Advance(bs[k]) * e.active_font_size) \div 1000
                    IN sum[Len(bs)]
        Contribution(i) ==
          IF IsNum(last.items[i])
          THEN 0 - (last.items[i].v[1] * e.active_font_size)
                     \div (last.items[i].v[2] * 1000)
          ELSE Str1(last.items[i].v)
        tot[i \in 0..Len(last.items)] ==
          IF i = 0 THEN 0 ELSE tot[i - 1] + Contribution(i)
    IN /\ ~last.raised
       /\ last.calc.target_width =
            IF e.active_wrapper = "None" THEN 1000 ELSE tot[Len(last.items)]

\* C25: the width array of the embedded font has 256 entries; for a slot
\* the slot map gives one character, the entry is the advance of the
\* character's glyph scaled to 1000 units per em, also when that advance
\* is 0, or the missing-glyph width when the font has no glyph for the
\* character; for a slot without a character it is the advance of the
\* glyph for the code point equal to the slot, or the missing-glyph width.
C25_WidthsArray ==
  tt.pc = "embedded" =>
    LET Advance(g) == (DictGet(tt.hmtx, g) * 1000) \div tt.units_per_em
        missing == IF Advance(".notdef") = 0 THEN 600 ELSE Advance(".notdef")
        OfCodePoint(cp) == IF DictHas(tt.cmap, cp)
                           THEN Advance(DictGet(tt.cmap, cp)) ELSE missing
    IN /\ Len(tt.widths) = 256
       /\ \A i \in 0..255 :
            IF DictHas(tt.custom_map, i)
            THEN Len(DictGet(tt.custom_map, i)) = 1 =>
                   tt.widths[i + 1] = OfCodePoint(DictGet(tt.custom_map, i)[1])
            ELSE tt.widths[i + 1] = OfCodePoint(i)

C27_HexKeysOnly ==
  (last.kind = "Tf" /\ eng[1].active_rule # 0) =>
    LET emap == config[eng[1].active_rule].encoding_map
    IN \A b \in 0..255 :
         DictHas(eng[1].active_source_hex_map, PyInt(b))
           <=> \E i \in 1..Len(emap) :
                  /\ IsStr(emap[i].k) /\ Len(emap[i].k.v) > 1
                  /\ PyIntBase16(emap[i].k).ok
                  /\ PyIntBase16(emap[i].k).n = b

\* C28: while no rule is active, rewrite_text_operands returns its operands
\* unchanged for Tj and TJ operand lists, and the text-showing handler
\* passes the operator through: the output gets the operator with its
\* operands and no Tz or Tm operator, and its horizontal scaling stays.
C28_NoRulePassThrough ==
  eng[1].active_rule = 0 =>
    /\ (last.kind = "rewrite" /\ last.op \in {"Tj", "TJ"}) =>
          ~last.raised /\ last.out = last.items
    /\ last.kind = "show" =>
          /\ last.passed /\ ~last.raised
          /\ last.ops = <<TextOp(last.op, last.items)>>
          /\ tz.out = last.hs_before

\* A text-showing operator reached the handler after a font without a rule
\* had been selected in place of a font with one
C28_Witness ==
  /\ last.kind = "show" /\ last.op = "TJ" /\ eng[1].active_rule = 0
  /\ sel[1].some /\ sel[1].name = Arial /\ ~sel[1].first
  /\ tz.out = RatInt(80)

\* C29: every page starts with an engine in its initial state, without an
\* active rule, whatever the engine of the page before was left with; a
\* text-showing operator that reaches the handler before any Tf of the page
\* is passed through with its operands, with no other operator emitted.
C29_NoCarryOver ==
  /\ [][(run'.in_page /\ ~run.in_page) =>
          (eng'[1] = NewEngine /\ eng'[1].active_rule = 0)]_vars
  /\ [](/\ (run.in_page /\ ~sel[1].some) => eng[1].active_rule = 0
        /\ (run.in_page /\ ~sel[1].some /\ last.kind = "show") =>
              /\ last.passed
              /\ last.ops = <<TextOp(last.op, last.items)>>)

\* On the second page an operator was shown before any Tf, the first
\* page having ended with a rule active
C29_Witness ==
  /\ run.pc = "pages" /\ run.in_page /\ Len(run.visited) = 2
  /\ run.left_active
  /\ ~sel[1].some /\ last.kind = "show" /\ last.passed

\* C30: with every target font file present and parsable, the loop of
\* process_pdf that loads the fonts and registers the required characters
\* ends without an exception, whatever the values of the rules' encoding
\* maps are: characters, strings of several characters or integer slots.
C30_PreprocessingCompletes ==
  (\A f \in PipeFiles : run.files[f] = "ok") =>
     ~(/\ run.pc = "raised"
       /\ Len(run.visited) = 0
       /\ \A f \in PipeFiles : run.assigned[f] = 0)

====
